---- MODULE Spec2Model ----
(***************************************************************************)
(* Node data model of the LogicFlow diagram engine (BaseNodeModel.ts).     *)
(* A graph owns a set of nodes; every per-node field is a function over    *)
(* the ids of the nodes of the graph.                                      *)
(***************************************************************************)
EXTENDS Integers, Sequences, FiniteSets, TLC

\* ------------------------------------------------------------------ bounds
\* node centres stay inside 0..MaxCoord on both axes
MaxCoord == 1
\* number of ids createUuid hands out to labels
MaxIds == 2
\* number of entries of a list passed as text at construction
MaxInitLabels == 2

\* ------------------------------------------------------- program constants
\* defaultPosition: the label sits 10 left of / above the node centre
LabelOffset == 10
\* defaultPosition: the i-th label of a list is staggered by 20 * i
LabelStagger == 20

\* ------------------------------------------------------------ value domains
Undefined == "undefined"
\* deltas of move / getMoveDistance
Deltas == {-1, 0, 1}

\* labelConfig sub-record of properties; max is meaningful when hasMax
LabelConfigOf(multiple, hasMax, max) ==
  [multiple |-> multiple, hasMax |-> hasMax, max |-> max]

SingleConfig == LabelConfigOf(FALSE, FALSE, 0)

\* a property value: a primitive (compared by value), an object (compared by
\* reference), the labelConfig object, or absent from the map
PropAbsent == [kind |-> "absent", str |-> "", num |-> 0, lc |-> SingleConfig]
PropPrim(s) == [kind |-> "prim", str |-> s, num |-> 0, lc |-> SingleConfig]
PropNum(k) == [kind |-> "num", str |-> "", num |-> k, lc |-> SingleConfig]
PropObj(s) == [kind |-> "obj", str |-> s, num |-> 0, lc |-> SingleConfig]
PropLabelConfig(c) == [kind |-> "lc", str |-> "", num |-> 0, lc |-> c]

PropKeys == <<"labelConfig", "color", "meta", "width", "height">>
PropKeySet == {PropKeys[i] : i \in 1..Len(PropKeys)}

\* a text label record
LabelOf(id, value, content, px, py, isFocus) ==
  [id |-> id, value |-> value, content |-> content, x |-> px, y |-> py,
   isFocus |-> isFocus, chars |-> ""]

\* the text field: one record (isArray = FALSE, exactly one item) or a list
TextRecord(l) == [isArray |-> FALSE, items |-> <<l>>]
TextList(ls) == [isArray |-> TRUE, items |-> ls]

\* lodash slice(list, 0, n)
Slice(list, n) == SubSeq(list, 1, n)

\* lodash findIndex over label ids, 0-based, -1 when absent
RECURSIVE FindIndexFrom(_, _, _)
FindIndexFrom(items, id, i) ==
  IF i > Len(items) THEN -1
  ELSE IF items[i].id = id THEN i - 1
  ELSE FindIndexFrom(items, id, i + 1)

FindIndex(items, id) == FindIndexFrom(items, id, 1)

\* Array.prototype.splice(index, 1) with a 0-based index, index >= 0
Splice(items, index) ==
  IF index >= Len(items) THEN items
  ELSE [i \in 1..(Len(items) - 1) |-> IF i <= index THEN items[i] ELSE items[i + 1]]

VARIABLES
  labels,                \* the label plugin: the labels of its overlay model
  style,                 \* the style override map of the node
  zIndex,                \* the z-index of the node
  overlapMode,           \* graphModel.overlapMode, one per graph
  modelType,             \* the class of the node: base node or circle
  anchorsOffset,         \* explicit anchor offsets, empty when none are given
  x, y,                  \* node centre
  width, height,         \* node size
  rotate, transform,     \* rotation (quarter turns) and transform descriptor
  text,                  \* the text field
  properties,            \* the property map
  moveRules,             \* node-local move rules
  nodeMoveRules,         \* graphModel.nodeMoveRules, one list per graph
  sourceRules, targetRules,
  hasSetSourceRules, hasSetTargetRules,
  firstRules,            \* per chain, the list the hook returned when it was consulted
  nextId,                \* ids createUuid has handed out
  call                   \* the last API call: arguments, result, emitted event

vars == <<labels, style, zIndex, overlapMode, modelType, anchorsOffset, x, y, width, height, rotate, transform, text, properties, moveRules,
          nodeMoveRules, sourceRules, targetRules, hasSetSourceRules,
          hasSetTargetRules, firstRules, nextId, call>>

\* ------------------------------------------------------- Transform Engine
\* rotation angles are whole quarter turns, so that cos and sin are integers
Quarters == {0, 1, 2, 3}
Cos4(q) == CASE q % 4 = 0 -> 1 [] q % 4 = 1 -> 0 [] q % 4 = 2 -> -1 [] OTHER -> 0
Sin4(q) == CASE q % 4 = 0 -> 0 [] q % 4 = 1 -> 1 [] q % 4 = 2 -> 0 [] OTHER -> -1

\* an affine matrix (a b c d e f) acting on row vectors [px py 1]
MatTranslate(tx, ty) == <<1, 0, 0, 1, tx, ty>>
MatRotate(q) == <<Cos4(q), Sin4(q), 0 - Sin4(q), Cos4(q), 0, 0>>
MatMul(m, k) ==
  <<m[1] * k[1] + m[2] * k[3],
    m[1] * k[2] + m[2] * k[4],
    m[3] * k[1] + m[4] * k[3],
    m[3] * k[2] + m[4] * k[4],
    m[5] * k[1] + m[6] * k[3] + k[5],
    m[5] * k[2] + m[6] * k[4] + k[6]>>

\* new TranslateMatrix(-x, -y).rotate(value).translate(x, y)
TranslateRotateTranslate(px, py, q) ==
  MatMul(MatMul(MatTranslate(0 - px, 0 - py), MatRotate(q)), MatTranslate(px, py))

\* the transform field: not assigned until the rotate setter runs
TransformUnset == [defined |-> FALSE, m |-> <<0, 0, 0, 0, 0, 0>>]
TransformSet(px, py, q) == [defined |-> TRUE, m |-> TranslateRotateTranslate(px, py, q)]

\* ------------------------------------------------------------- move rules
\* what a rule returns: a boolean, or a per-axis pair {x, y} (a truthy object)
RuleBool(b) == [kind |-> "bool", b |-> b, x |-> b, y |-> b]
RulePair(ax, ay) == [kind |-> "pair", b |-> TRUE, x |-> ax, y |-> ay]

\* the rule functions callers register, named by what they return
MoveRuleIds == {"allow", "veto", "denyX", "denyY", "denyXY", "rightOnly"}

RuleResult(rule, dx, dy) ==
  CASE rule = "allow" -> RuleBool(TRUE)
    [] rule = "veto" -> RuleBool(FALSE)
    [] rule = "denyX" -> RulePair(FALSE, TRUE)
    [] rule = "denyY" -> RulePair(TRUE, FALSE)
    [] rule = "denyXY" -> RulePair(FALSE, FALSE)
    [] OTHER -> RulePair(dx >= 0, TRUE)

\* isAllowMoveNode without its test for a pair with both axes false
RECURSIVE MoveRuleLoopPairNeverVetoes(_, _, _, _, _, _)
MoveRuleLoopPairNeverVetoes(rules, i, dx, dy, isAllowMoveX, isAllowMoveY) ==
  IF i > Len(rules) THEN RulePair(isAllowMoveX, isAllowMoveY)
  ELSE LET r == RuleResult(rules[i], dx, dy) IN
    IF ~r.b THEN RuleBool(FALSE)
    ELSE IF r.kind = "pair"
      THEN MoveRuleLoopPairNeverVetoes(rules, i + 1, dx, dy,
                                       isAllowMoveX /\ r.x, isAllowMoveY /\ r.y)
      ELSE MoveRuleLoopPairNeverVetoes(rules, i + 1, dx, dy, isAllowMoveX, isAllowMoveY)

\* the for-of loop of isAllowMoveNode from the i-th rule on
RECURSIVE MoveRuleLoop(_, _, _, _, _, _)
MoveRuleLoop(rules, i, dx, dy, isAllowMoveX, isAllowMoveY) ==
  IF i > Len(rules) THEN RulePair(isAllowMoveX, isAllowMoveY)
  ELSE LET r == RuleResult(rules[i], dx, dy) IN
    IF ~r.b THEN RuleBool(FALSE)
    ELSE IF r.kind = "pair"
      THEN IF ~r.x /\ ~r.y THEN RuleBool(FALSE)
           ELSE MoveRuleLoop(rules, i + 1, dx, dy,
                             isAllowMoveX /\ r.x, isAllowMoveY /\ r.y)
      ELSE MoveRuleLoop(rules, i + 1, dx, dy, isAllowMoveX, isAllowMoveY)

\* this.moveRules.concat(this.graphModel.nodeMoveRules)
ConcatMoveRules(n) == moveRules[n] \o nodeMoveRules

IsAllowMoveNode(n, dx, dy) == MoveRuleLoop(ConcatMoveRules(n), 1, dx, dy, TRUE, TRUE)

IsAllowMoveByXORY(n, dx, dy, isIgnoreRule) ==
  IF isIgnoreRule THEN [isAllowMoveX |-> TRUE, isAllowMoveY |-> TRUE]
  ELSE LET r == IsAllowMoveNode(n, dx, dy) IN
    IF r.kind = "bool" THEN [isAllowMoveX |-> r.b, isAllowMoveY |-> r.b]
    ELSE [isAllowMoveX |-> r.x, isAllowMoveY |-> r.y]

\* fn is appended unless the list already includes it
PushUnique(list, fn) ==
  IF \E i \in 1..Len(list) : list[i] = fn THEN list ELSE Append(list, fn)

\* ------------------------------------------------------- text label helpers
\* (labelConfig as LabelConfig)?.multiple, falsy when labelConfig is missing
IsMultiple(props) == props["labelConfig"].kind = "lc" /\ props["labelConfig"].lc.multiple

ShiftLabel(l, dx, dy) == [l EXCEPT !.x = l.x + dx, !.y = l.y + dy]

\* moveText(deltaX, deltaY) on a text field under a property map.  A list
\* under a non-multiple config is spread into one object whose own x and y
\* are NaN; the inputs enumerated below never put a single config over a list.
MoveText(t, props, dx, dy) ==
  IF ~IsMultiple(props)
    THEN IF t.isArray THEN [isArray |-> FALSE, items |-> t.items]
         ELSE TextRecord(ShiftLabel(t.items[1], dx, dy))
    ELSE IF t.isArray
      THEN TextList([i \in 1..Len(t.items) |-> ShiftLabel(t.items[i], dx, dy)])
      ELSE t

\* ------------------------------------------------- construction (formatText)
\* an entry of a text list, or the single record, as the caller passes it
ItemString(s) ==
  [isString |-> TRUE, value |-> s, content |-> Undefined, hasPos |-> FALSE, x |-> 0, y |-> 0]
ItemObject(v, c, hasPos, px, py) ==
  [isString |-> FALSE, value |-> v, content |-> c, hasPos |-> hasPos, x |-> px, y |-> py]

\* NodeConfig.text: absent, a string, one record, or a list of strings / records
TextAbsent == [kind |-> "absent", str |-> "", item |-> ItemString(""), list |-> <<>>]
TextString(s) == [kind |-> "string", str |-> s, item |-> ItemString(""), list |-> <<>>]
TextObject(item) == [kind |-> "object", str |-> "", item |-> item, list |-> <<>>]
TextArray(list) == [kind |-> "array", str |-> "", item |-> ItemString(""), list |-> list]

\* JavaScript truthiness of an optional string
Truthy(s) == s # Undefined /\ s # ""

DefaultPosition(data, index) ==
  [x |-> data.x - LabelOffset, y |-> data.y - LabelOffset + LabelStagger * index]

\* a textList entry whose content is left empty for a string entry
FormatItemWithoutContent(data, item, index, id) ==
  LET dp == DefaultPosition(data, index) IN
  IF item.isString
    THEN LabelOf(id, item.value, "", dp.x, dp.y, FALSE)
    ELSE LabelOf(id, item.value,
                 IF Truthy(item.content) THEN item.content ELSE item.value,
                 IF item.hasPos THEN item.x ELSE dp.x,
                 IF item.hasPos THEN item.y ELSE dp.y, FALSE)

\* the textList entry formatText builds for the index-th entry (index from 0)
FormatItem(data, item, index, id) ==
  LET dp == DefaultPosition(data, index) IN
  IF item.isString
    THEN LabelOf(id, item.value, item.value, dp.x, dp.y, FALSE)
    ELSE LabelOf(id, item.value,
                 IF Truthy(item.content) THEN item.content ELSE item.value,
                 IF item.hasPos THEN item.x ELSE dp.x,
                 IF item.hasPos THEN item.y ELSE dp.y, FALSE)

\* formatText(data); base is the number of ids handed out so far.  A text of
\* isArray = FALSE without items stands for undefined (textList[0] of []).
FormatText(data, base) ==
  LET labelConfig == data.labelConfig
      t == data.text
      dp == DefaultPosition(data, 0)
  IN
  IF t.kind = "absent" \/ (t.kind = "string" /\ t.str = "")
    THEN IF labelConfig.multiple THEN TextList(<<>>)
         ELSE TextRecord(LabelOf(base + 1, "", "", dp.x, dp.y, FALSE))
  ELSE IF t.kind = "string"
    THEN LET l == LabelOf(base + 1, t.str, t.str, dp.x, dp.y, FALSE) IN
         IF labelConfig.multiple THEN TextList(<<l>>) ELSE TextRecord(l)
  ELSE IF t.kind = "array"
    THEN LET textList == [i \in 1..Len(t.list) |-> FormatItem(data, t.list[i], i - 1, base + i)] IN
         IF labelConfig.multiple
           THEN TextList(Slice(textList,
                  IF ~labelConfig.hasMax \/ labelConfig.max > Len(textList)
                    THEN Len(textList) ELSE labelConfig.max))
           ELSE [isArray |-> FALSE, items |-> Slice(textList, IF Len(textList) > 0 THEN 1 ELSE 0)]
  ELSE LET formatedText == LabelOf(base + 1, t.item.value, t.item.value, dp.x, dp.y, FALSE) IN
       IF labelConfig.multiple THEN TextList(<<formatedText>>) ELSE TextRecord(formatedText)

\* number of createUuid calls formatText makes
UuidsOfFormatText(data) ==
  LET t == data.text IN
  IF t.kind = "absent" \/ (t.kind = "string" /\ t.str = "")
    THEN IF data.labelConfig.multiple THEN 0 ELSE 1
  ELSE IF t.kind = "array" THEN Len(t.list)
  ELSE 1

\* the console.warn of formatText: list longer than labelConfig.max
WarnsOfFormatText(data) ==
  data.text.kind = "array" /\ data.labelConfig.hasMax /\ data.labelConfig.max < Len(data.text.list)

\* ------------------------------------------------------ construction inputs
NodeIds == {"n1", "n2"}

InitItems ==
  {ItemString("a"), ItemObject("a", Undefined, FALSE, 0, 0), ItemObject("b", "a", TRUE, 5, 5)}

RECURSIVE SeqsUpTo(_, _)
SeqsUpTo(S, k) ==
  IF k = 0 THEN {<<>>}
  ELSE LET shorter == SeqsUpTo(S, k - 1) IN
       shorter \cup {Append(q, e) : q \in {r \in shorter : Len(r) = k - 1}, e \in S}

InitLabelConfigs ==
  {SingleConfig, LabelConfigOf(TRUE, FALSE, 0)}
    \cup {LabelConfigOf(TRUE, TRUE, m) : m \in 1..MaxInitLabels}

\* text inputs; the empty list under a single config (text left undefined) is
\* not among them
InitTexts(labelConfig) ==
  {TextAbsent, TextString(""), TextString("a")}
    \cup {TextObject(it) : it \in {i \in InitItems : ~i.isString}}
    \cup {TextArray(l) : l \in {q \in SeqsUpTo(InitItems, MaxInitLabels) :
                                  labelConfig.multiple \/ Len(q) > 0}}

\* data.rotate of the NodeConfig: absent, or a quarter turn
InitRotates == {[given |-> FALSE, q |-> 0]} \cup {[given |-> TRUE, q |-> q] : q \in {0, 1}}

NodeConfigs ==
  {[x |-> px, y |-> py, labelConfig |-> lc, text |-> t, rotate |-> r] :
     px \in 0..MaxCoord, py \in {0}, lc \in InitLabelConfigs,
     t \in UNION {InitTexts(c) : c \in InitLabelConfigs}, r \in InitRotates}

ValidNodeConfigs == {d \in NodeConfigs : d.text \in InitTexts(d.labelConfig)}

\* a NodeConfig without text, rotation or labelConfig, at a given x
PlainConfig(px) ==
  [x |-> px, y |-> 0, labelConfig |-> SingleConfig, text |-> TextAbsent,
   rotate |-> [given |-> FALSE, q |-> 0]]

\* ------------------------------------------------------------ the call log
EmptyProps == [k \in PropKeySet |-> PropAbsent]

\* the style map: no key is overridden
StyleKeys == {"fill", "stroke"}
NoStyle == [k \in StyleKeys |-> Undefined]

\* what the last API call was given, what it returned and what it emitted
\* getData(): the snapshot of a node at (px, py) with rotation q, property
\* map props and text t; rotate is present when truthy, the text of a list is
\* the list of {x, y, value, content}, the text of a record is present when
\* its value is truthy
SnapshotLabel(l) == [x |-> l.x, y |-> l.y, value |-> l.value, content |-> l.content]

GetDataOf(n, px, py, q, props, t) ==
  [defined |-> TRUE, id |-> n, type |-> modelType[n],
   x |-> px, y |-> py, properties |-> props,
   hasRotate |-> q # 0, rotate |-> q,
   hasZIndex |-> overlapMode = "increase", zIndex |-> zIndex[n],
   text |-> IF t.isArray
              THEN [kind |-> "list",
                    items |-> [i \in 1..Len(t.items) |-> SnapshotLabel(t.items[i])]]
            ELSE IF Len(t.items) = 1 /\ Truthy(t.items[1].value)
              THEN [kind |-> "record", items |-> <<SnapshotLabel(t.items[1])>>]
            ELSE [kind |-> "absent", items |-> <<>>]]

\* no snapshot was returned
NoData ==
  [defined |-> FALSE, id |-> "", type |-> "",
   x |-> 0, y |-> 0, properties |-> EmptyProps,
   hasRotate |-> FALSE, rotate |-> 0, hasZIndex |-> FALSE, zIndex |-> 0, text |-> [kind |-> "absent", items |-> <<>>]]

CallOf(name, n) ==
  [name |-> name, node |-> n, ret |-> FALSE, threw |-> FALSE,
   allow |-> RuleBool(TRUE), moved |-> <<0, 0>>,
   emitted |-> FALSE, keys |-> <<>>, arg |-> EmptyProps,
   rules |-> <<>>, hookCalled |-> FALSE, msg |-> "",
   invoked |-> <<>>, data |-> NoData, anchors |-> <<>>,
   styles |-> NoStyle, styleWas |-> NoStyle, trace |-> <<>>]

\* ------------------------------------------------------------ construction
\* initNodeData: labelConfig, formatText, then assign(this, pickNodeConfig(data))
\* with x and y assigned before rotate; rotate goes through the setter
InitNodeData(data, base) ==
  [x |-> data.x, y |-> data.y,
   text |-> FormatText(data, base),
   properties |-> [EmptyProps EXCEPT !["labelConfig"] = PropLabelConfig(data.labelConfig)],
   rotate |-> IF data.rotate.given THEN data.rotate.q ELSE 0,
   transform |-> IF data.rotate.given THEN TransformSet(data.x, data.y, data.rotate.q)
                 ELSE TransformUnset]

\* field initialisers of the class
DefaultWidth == 100
DefaultHeight == 80

\* CircleNodeModel: r = 50, and width and height are computed as r * 2
CircleR == 50

\* the classes a node is constructed from
ModelTypes == {"node", "circle-node"}

\* the width and height getters of the class
WidthOf(kind, w) == IF kind = "circle-node" THEN CircleR * 2 ELSE w
HeightOf(kind, h) == IF kind = "circle-node" THEN CircleR * 2 ELSE h

\* graphModel.overlapMode: the default policy or the z-increase policy
OverlapModes == {"default", "increase"}

\* getZIndex(): the graph-wide counter, read for the k-th node constructed
GetZIndex(k) == 1000 + k

\* the zIndex field: its initialiser, or data.zIndex || getZIndex() under the
\* z-increase policy (the NodeConfigs enumerated carry no zIndex)
DefaultZIndex == 1
InitZIndex(mode, k) == IF mode = "increase" THEN GetZIndex(k) ELSE DefaultZIndex

\* a graph under the overlap mode given, whose nodes are built from cfg, a
\* function from node ids to NodeConfigs, each by the class kinds names; n1
\* is constructed before n2
InitGraphIn(cfg, kinds, mode) ==
  LET ids == DOMAIN cfg
      baseOf(n) == IF n = "n2" /\ "n1" \in ids THEN UuidsOfFormatText(cfg["n1"]) ELSE 0
      built == [n \in ids |-> InitNodeData(cfg[n], baseOf(n))]
  IN
  /\ style = [n \in ids |-> NoStyle]
  /\ zIndex = [n \in ids |-> InitZIndex(mode, IF n = "n2" /\ "n1" \in ids THEN 2 ELSE 1)]
  /\ overlapMode = mode
  /\ modelType = kinds
  /\ anchorsOffset = [n \in ids |-> <<>>]
  /\ x = [n \in ids |-> built[n].x]
  /\ y = [n \in ids |-> built[n].y]
  /\ width = [n \in ids |-> WidthOf(kinds[n], DefaultWidth)]
  /\ height = [n \in ids |-> HeightOf(kinds[n], DefaultHeight)]
  /\ rotate = [n \in ids |-> built[n].rotate]
  /\ transform = [n \in ids |-> built[n].transform]
  /\ text = [n \in ids |-> built[n].text]
  /\ properties = [n \in ids |-> built[n].properties]
  /\ moveRules = [n \in ids |-> <<>>]
  /\ nodeMoveRules = <<>>
  /\ sourceRules = [n \in ids |-> <<>>]
  /\ targetRules = [n \in ids |-> <<>>]
  /\ hasSetSourceRules = [n \in ids |-> FALSE]
  /\ hasSetTargetRules = [n \in ids |-> FALSE]
  /\ firstRules = [n \in ids |-> [source |-> <<>>, target |-> <<>>]]
  /\ nextId = IF "n2" \in ids THEN baseOf("n2") + UuidsOfFormatText(cfg["n2"])
              ELSE UuidsOfFormatText(cfg["n1"])
  /\ call = CallOf("constructor", "")

\* a graph under the default overlap mode
InitGraphOfKinds(cfg, kinds) == InitGraphIn(cfg, kinds, "default") /\ labels = <<>>

\* a graph of base-class nodes
InitGraph(cfg) == InitGraphOfKinds(cfg, [n \in DOMAIN cfg |-> "node"])

\* ------------------------------------------------------------------- moves
\* move(deltaX, deltaY, isIgnoreRule) as a function of the node's state
MoveResult(n, dx, dy, isIgnoreRule) ==
  LET a == IsAllowMoveByXORY(n, dx, dy, isIgnoreRule)
      t1 == IF a.isAllowMoveX THEN MoveText(text[n], properties[n], dx, 0) ELSE text[n]
      t2 == IF a.isAllowMoveY THEN MoveText(t1, properties[n], 0, dy) ELSE t1
  IN [x |-> IF a.isAllowMoveX THEN x[n] + dx ELSE x[n],
      y |-> IF a.isAllowMoveY THEN y[n] + dy ELSE y[n],
      text |-> t2,
      isAllowMoveX |-> a.isAllowMoveX, isAllowMoveY |-> a.isAllowMoveY,
      allow |-> IF isIgnoreRule THEN RuleBool(TRUE) ELSE IsAllowMoveNode(n, dx, dy),
      ret |-> (a.isAllowMoveX \/ a.isAllowMoveY)]

\* the part of the state no move touches
UnchangedByMove ==
  UNCHANGED <<labels, style, zIndex, overlapMode, modelType, anchorsOffset, width, height, rotate, transform, properties, moveRules, nodeMoveRules,
              sourceRules, targetRules, hasSetSourceRules, hasSetTargetRules, firstRules, nextId>>

InRange(px, py) == px \in 0..MaxCoord /\ py \in 0..MaxCoord

Move(n, dx, dy, isIgnoreRule) ==
  /\ InRange(x[n] + dx, y[n] + dy)
  /\ LET r == MoveResult(n, dx, dy, isIgnoreRule) IN
     /\ x' = [x EXCEPT ![n] = r.x]
     /\ y' = [y EXCEPT ![n] = r.y]
     /\ text' = [text EXCEPT ![n] = r.text]
     /\ call' = [CallOf("move", n) EXCEPT !.allow = r.allow, !.ret = r.ret]
  /\ UnchangedByMove

GetMoveDistance(n, dx, dy, isIgnoreRule) ==
  /\ InRange(x[n] + dx, y[n] + dy)
  /\ LET a == IsAllowMoveByXORY(n, dx, dy, isIgnoreRule)
         goX == a.isAllowMoveX /\ dx # 0
         goY == a.isAllowMoveY /\ dy # 0
         t1 == IF goX THEN MoveText(text[n], properties[n], dx, 0) ELSE text[n]
         t2 == IF goY THEN MoveText(t1, properties[n], 0, dy) ELSE t1
     IN
     /\ x' = [x EXCEPT ![n] = IF goX THEN @ + dx ELSE @]
     /\ y' = [y EXCEPT ![n] = IF goY THEN @ + dy ELSE @]
     /\ text' = [text EXCEPT ![n] = t2]
     /\ call' = [CallOf("getMoveDistance", n) EXCEPT
                   !.moved = <<IF goX THEN dx ELSE 0, IF goY THEN dy ELSE 0>>]
  /\ UnchangedByMove

\* moveTo(x, y, isIgnoreRule): the aggregated result is used as one truthy
\* value, and a per-axis pair is an object, hence truthy
MoveTo(n, tx, ty, isIgnoreRule) ==
  LET deltaX == tx - x[n]
      deltaY == ty - y[n]
      r == IsAllowMoveNode(n, deltaX, deltaY)
      rejected == ~isIgnoreRule /\ ~r.b
  IN
  /\ InRange(tx, ty)
  /\ x' = [x EXCEPT ![n] = IF rejected THEN @ ELSE tx]
  /\ y' = [y EXCEPT ![n] = IF rejected THEN @ ELSE ty]
  /\ text' = [text EXCEPT ![n] =
                IF rejected THEN @ ELSE MoveText(@, properties[n], deltaX, deltaY)]
  /\ call' = [CallOf("moveTo", n) EXCEPT
                !.allow = IF isIgnoreRule THEN RuleBool(TRUE) ELSE r, !.ret = ~rejected]
  /\ UnchangedByMove

\* the rotate setter
SetRotate(n, value) ==
  /\ rotate' = [rotate EXCEPT ![n] = value]
  /\ transform' = [transform EXCEPT ![n] = TransformSet(x[n], y[n], value)]
  /\ call' = CallOf("rotate", n)
  /\ UNCHANGED <<labels, style, zIndex, overlapMode, modelType, anchorsOffset, x, y, width, height, text, properties, moveRules, nodeMoveRules,
                 sourceRules, targetRules, hasSetSourceRules, hasSetTargetRules, firstRules, nextId>>

\* addNodeMoveRules pushing onto the graph's list instead of the node's own
AddNodeMoveRulesOntoGraphList(n, fn) ==
  /\ nodeMoveRules' = PushUnique(nodeMoveRules, fn)
  /\ call' = CallOf("addNodeMoveRules", n)
  /\ UNCHANGED <<labels, style, zIndex, overlapMode, modelType, anchorsOffset, x, y, width, height, rotate, transform, text, properties, moveRules,
                 sourceRules, targetRules, hasSetSourceRules, hasSetTargetRules, firstRules, nextId>>

\* addNodeMoveRules(fn) of the node
AddNodeMoveRules(n, fn) ==
  /\ moveRules' = [moveRules EXCEPT ![n] = PushUnique(@, fn)]
  /\ call' = CallOf("addNodeMoveRules", n)
  /\ UNCHANGED <<labels, style, zIndex, overlapMode, modelType, anchorsOffset, x, y, width, height, rotate, transform, text, properties, nodeMoveRules,
                 sourceRules, targetRules, hasSetSourceRules, hasSetTargetRules, firstRules, nextId>>

\* the owning graph registers a rule in its own list, the one every node reads
GraphAddNodeMoveRules(fn) ==
  /\ nodeMoveRules' = PushUnique(nodeMoveRules, fn)
  /\ call' = CallOf("graphModel.addNodeMoveRules", "")
  /\ UNCHANGED <<labels, style, zIndex, overlapMode, modelType, anchorsOffset, x, y, width, height, rotate, transform, text, properties, moveRules,
                 sourceRules, targetRules, hasSetSourceRules, hasSetTargetRules, firstRules, nextId>>

\* ------------------------------------------------------------- label edits
\* the value argument of updateText: a string, or a partial record holding
\* one of value, content, position
UpdateString(s) == [kind |-> "string", s |-> s, x |-> 0, y |-> 0]
UpdateValue(s) == [kind |-> "value", s |-> s, x |-> 0, y |-> 0]
UpdateContent(s) == [kind |-> "content", s |-> s, x |-> 0, y |-> 0]
UpdatePos(px, py) == [kind |-> "pos", s |-> "", x |-> px, y |-> py]

\* merge(label, partial): the fields the partial record holds are overwritten
MergePartial(l, v) ==
  CASE v.kind = "value" -> [l EXCEPT !.value = v.s]
    [] v.kind = "content" -> [l EXCEPT !.content = v.s]
    [] v.kind = "pos" -> [l EXCEPT !.x = v.x, !.y = v.y]
    [] OTHER -> l

\* single mode: merge(this.text, {value, content: value, isFocus: false}) for a
\* string, merge(this.text, value) for a partial record
MergeIntoRecord(l, v) ==
  IF v.kind = "string" THEN [l EXCEPT !.value = v.s, !.content = v.s, !.isFocus = FALSE]
  ELSE MergePartial(l, v)

\* list: assign(this.text[textIndex], value); assign of a string copies the
\* string's characters under their index keys and no other field
AssignToEntry(l, v) ==
  IF v.kind = "string" THEN [l EXCEPT !.chars = v.s]
  ELSE MergePartial(l, v)

UpdateTextResult(t, props, v, id) ==
  IF ~IsMultiple(props) /\ ~t.isArray /\ Len(t.items) = 1 /\ t.items[1].id = id
    THEN TextRecord(MergeIntoRecord(t.items[1], v))
  ELSE IF t.isArray
    THEN LET textIndex == FindIndex(t.items, id) IN
         IF textIndex < 0 THEN t
         ELSE [t EXCEPT !.items[textIndex + 1] = AssignToEntry(@, v)]
  ELSE t

\* the state no label edit touches
UnchangedByLabelEdit ==
  UNCHANGED <<labels, style, zIndex, overlapMode, modelType, anchorsOffset, x, y, width, height, rotate, transform, properties, moveRules,
              nodeMoveRules, sourceRules, targetRules, hasSetSourceRules,
              hasSetTargetRules, firstRules>>

UpdateText(n, v, id) ==
  /\ text' = [text EXCEPT ![n] = UpdateTextResult(@, properties[n], v, id)]
  /\ call' = CallOf("updateText", n)
  /\ UNCHANGED nextId
  /\ UnchangedByLabelEdit

\* addText without its test of the count against labelConfig.max
AddTextOutcomeMaxIgnored(t, props) ==
  LET labelConfig == props["labelConfig"] IN
  IF labelConfig.kind # "lc" THEN "throw"
  ELSE IF labelConfig.lc.multiple THEN (IF t.isArray THEN "push" ELSE "throw")
  ELSE "focus"

\* addText(labelConf): outcome "full" (count reached max), "push", "focus"
\* (single mode) or "throw" (push on a text that is not a list)
AddTextOutcome(t, props) ==
  LET labelConfig == props["labelConfig"] IN
  IF labelConfig.kind # "lc" THEN "throw"
  ELSE IF labelConfig.lc.multiple /\ labelConfig.lc.hasMax /\ t.isArray
            /\ Len(t.items) >= labelConfig.lc.max THEN "full"
  ELSE IF labelConfig.lc.multiple THEN (IF t.isArray THEN "push" ELSE "throw")
  ELSE "focus"

\* addText moving the record of single mode to the position it is given
AddTextResultRelocating(t, props, px, py, id) ==
  LET outcome == AddTextOutcome(t, props) IN
  CASE outcome = "push" -> TextList(Append(t.items, LabelOf(id, "", "", px, py, TRUE)))
    [] outcome = "focus" ->
         [t EXCEPT !.items[1].isFocus = TRUE, !.items[1].x = px, !.items[1].y = py]
    [] OTHER -> t

AddTextResult(t, props, px, py, id) ==
  LET outcome == AddTextOutcome(t, props) IN
  CASE outcome = "push" -> TextList(Append(t.items, LabelOf(id, "", "", px, py, TRUE)))
    [] outcome = "focus" -> [t EXCEPT !.items[1].isFocus = TRUE]
    [] OTHER -> t

AddText(n, px, py) ==
  LET outcome == AddTextOutcome(text[n], properties[n]) IN
  /\ outcome = "push" => nextId < MaxIds
  /\ text' = [text EXCEPT ![n] = AddTextResult(@, properties[n], px, py, nextId + 1)]
  /\ nextId' = IF outcome = "push" THEN nextId + 1 ELSE nextId
  /\ call' = [CallOf("addText", n) EXCEPT !.threw = (outcome = "throw"), !.msg = outcome]
  /\ UnchangedByLabelEdit

\* isArray() called without an argument: lodash answers false for undefined
IsArrayOfNothing == FALSE

\* deleteText({index, id})
DeleteTextResult(t, hasIndex, index, hasId, id) ==
  IF t.isArray
    THEN IF hasIndex /\ index # 0 /\ IsArrayOfNothing
           THEN TextList(Splice(t.items, index))
           ELSE LET textIndex == IF hasId THEN FindIndex(t.items, id) ELSE -1 IN
                IF textIndex < 0 THEN t ELSE TextList(Splice(t.items, textIndex))
    ELSE [t EXCEPT !.items[1].value = "", !.items[1].content = ""]

DeleteText(n, hasIndex, index, hasId, id) ==
  /\ text' = [text EXCEPT ![n] = DeleteTextResult(@, hasIndex, index, hasId, id)]
  /\ call' = CallOf("deleteText", n)
  /\ UNCHANGED nextId
  /\ UnchangedByLabelEdit

\* ---------------------------------------------------------------- properties
\* a !== b where a comes out of toJS(this.properties), a fresh deep copy:
\* primitives compare by value, objects by reference and so always differ
StrictNotEqual(a, b) ==
  IF a.kind \in {"obj", "lc"} \/ b.kind \in {"obj", "lc"} THEN TRUE ELSE a # b

Has(props, key) == props[key].kind # "absent"

\* {...preProperties, ...formatData(properties)}
MergeProps(pre, p) == [k \in PropKeySet |-> IF Has(p, k) THEN p[k] ELSE pre[k]]

\* the test that puts a key in updateKeys
IsUpdatedKey(pre, p, key) ==
  (Has(pre, key) /\ StrictNotEqual(pre[key], p[key])) \/ ~Has(pre, key)

RECURSIVE UpdateKeysFrom(_, _, _)
UpdateKeysFrom(pre, p, i) ==
  IF i > Len(PropKeys) THEN <<>>
  ELSE IF Has(p, PropKeys[i]) /\ IsUpdatedKey(pre, p, PropKeys[i])
    THEN <<PropKeys[i]>> \o UpdateKeysFrom(pre, p, i + 1)
  ELSE UpdateKeysFrom(pre, p, i + 1)

UpdateKeys(pre, p) == UpdateKeysFrom(pre, p, 1)

\* keys of the event setProperty emits
SetPropertyKeys(pre, key, val) == <<key>>

\* the state no property operation touches
UnchangedByProperties ==
  UNCHANGED <<labels, style, zIndex, overlapMode, modelType, anchorsOffset, x, y, width, height, rotate, transform, text, moveRules, nodeMoveRules,
              sourceRules, targetRules, hasSetSourceRules, hasSetTargetRules, firstRules, nextId>>

\* one step of a property operation, in the order the steps run: props is
\* this.properties when the step runs, pre the previous map where the step
\* is given it
TraceStep(step, pre, props) == [step |-> step, pre |-> pre, props |-> props]

\* setProperty / setProperties emitting before the hook runs
SetPropertyTraceEmitFirst(preProperties, nextProperties) ==
  <<TraceStep("properties", EmptyProps, nextProperties),
    TraceStep("emit", preProperties, nextProperties),
    TraceStep("setAttributes", EmptyProps, nextProperties)>>

\* setProperty / setProperties: this.properties = nextProperties, then
\* this.setAttributes(), then eventCenter.emit with preProperties and
\* nextProperties
SetPropertyTrace(preProperties, nextProperties) ==
  <<TraceStep("properties", EmptyProps, nextProperties),
    TraceStep("setAttributes", EmptyProps, nextProperties),
    TraceStep("emit", preProperties, nextProperties)>>

\* setProperty(key, val); setAttributes is the default empty hook
SetProperty(n, key, val) ==
  LET preProperties == properties[n]
      nextProperties == [preProperties EXCEPT ![key] = val]
  IN
  /\ properties' = [properties EXCEPT ![n] = nextProperties]
  /\ call' = [CallOf("setProperty", n) EXCEPT !.emitted = TRUE,
                !.keys = SetPropertyKeys(preProperties, key, val),
                !.arg = [EmptyProps EXCEPT ![key] = val],
                !.trace = SetPropertyTrace(preProperties, nextProperties)]
  /\ UnchangedByProperties

\* setProperties(properties)
SetProperties(n, p) ==
  LET preProperties == properties[n]
      nextProperties == MergeProps(preProperties, p)
  IN
  /\ properties' = [properties EXCEPT ![n] = nextProperties]
  /\ call' = [CallOf("setProperties", n) EXCEPT !.emitted = TRUE,
                !.keys = UpdateKeys(preProperties, p),
                !.arg = p,
                !.trace = SetPropertyTrace(preProperties, nextProperties)]
  /\ UnchangedByProperties

\* deleteProperty emptying the whole map
DeletePropertyClearingMap(n, key) ==
  /\ properties' = [properties EXCEPT ![n] = EmptyProps]
  /\ call' = [CallOf("deleteProperty", n) EXCEPT
                !.trace = <<TraceStep("delete", properties[n], EmptyProps),
                            TraceStep("setAttributes", EmptyProps, EmptyProps)>>]
  /\ UnchangedByProperties

\* deleteProperty(key): delete this.properties[key], then setAttributes();
\* no event
DeleteProperty(n, key) ==
  LET nextProperties == [properties[n] EXCEPT ![key] = PropAbsent] IN
  /\ properties' = [properties EXCEPT ![n] = nextProperties]
  /\ call' = [CallOf("deleteProperty", n) EXCEPT
                !.trace = <<TraceStep("delete", properties[n], nextProperties),
                            TraceStep("setAttributes", EmptyProps, nextProperties)>>]
  /\ UnchangedByProperties

\* `this.width = width` in resize: the base class has a setter; the circle
\* overrides width and height with computed getters only, so the assignment
\* either throws or is dropped, and the getter keeps answering r * 2
SizeAssignments(kind) == IF kind = "circle-node" THEN {"throws", "dropped"} ELSE {"set"}

\* resize({width, height, deltaX, deltaY}): move by half the deltas, set the
\* size, then setProperties({width, height}), and return getData()
Resize(n, w, h, deltaX, deltaY) ==
  LET r == MoveResult(n, deltaX \div 2, deltaY \div 2, FALSE)
      p == [EmptyProps EXCEPT !["width"] = PropNum(w), !["height"] = PropNum(h)]
      preProperties == properties[n]
  IN
  /\ deltaX % 2 = 0 /\ deltaY % 2 = 0
  /\ InRange(x[n] + deltaX \div 2, y[n] + deltaY \div 2)
  /\ x' = [x EXCEPT ![n] = r.x]
  /\ y' = [y EXCEPT ![n] = r.y]
  /\ text' = [text EXCEPT ![n] = r.text]
  /\ \E assignment \in SizeAssignments(modelType[n]) :
       IF assignment = "throws"
         THEN /\ UNCHANGED <<width, height, properties>>
              /\ call' = [CallOf("resize", n) EXCEPT !.allow = r.allow, !.threw = TRUE]
         ELSE /\ width' = [width EXCEPT ![n] = IF assignment = "set" THEN w ELSE @]
              /\ height' = [height EXCEPT ![n] = IF assignment = "set" THEN h ELSE @]
              /\ properties' = [properties EXCEPT ![n] = MergeProps(preProperties, p)]
              /\ call' = [CallOf("resize", n) EXCEPT !.allow = r.allow,
                            !.emitted = TRUE, !.keys = UpdateKeys(preProperties, p), !.arg = p,
                            !.trace = SetPropertyTrace(preProperties, MergeProps(preProperties, p)),
                            !.data = GetDataOf(n, r.x, r.y, rotate[n],
                                               MergeProps(preProperties, p), r.text)]
  /\ UNCHANGED <<labels, style, zIndex, overlapMode, modelType, anchorsOffset, rotate, transform, moveRules, nodeMoveRules,
                 sourceRules, targetRules, hasSetSourceRules, hasSetTargetRules, firstRules,
                 nextId>>

\* -------------------------------------------------------------- snapshot
\* a call of getData(): the snapshot goes to the caller
GetData(n) ==
  /\ call' = [CallOf("getData", n) EXCEPT
                !.data = GetDataOf(n, x[n], y[n], rotate[n], properties[n], text[n])]
  /\ UNCHANGED <<labels, style, zIndex, overlapMode, modelType, anchorsOffset, x, y, width, height,
                 rotate, transform, text, properties, moveRules, nodeMoveRules, sourceRules,
                 targetRules, hasSetSourceRules, hasSetTargetRules, firstRules, nextId>>

\* the NodeConfig a snapshot is: its text is absent, one record or a list of
\* records, each holding x, y, value and content
ItemOfSnapshot(l) == ItemObject(l.value, l.content, TRUE, l.x, l.y)

ConfigOfData(data) ==
  [x |-> data.x, y |-> data.y,
   labelConfig |-> data.properties["labelConfig"].lc,
   text |-> CASE data.text.kind = "absent" -> TextAbsent
              [] data.text.kind = "record" -> TextObject(ItemOfSnapshot(data.text.items[1]))
              [] OTHER -> TextArray([i \in 1..Len(data.text.items) |->
                                       ItemOfSnapshot(data.text.items[i])]),
   rotate |-> [given |-> data.hasRotate, q |-> IF data.hasRotate THEN data.rotate ELSE 0]]

\* the node is constructed anew from its own snapshot, as when a saved graph
\* is rendered again: getData(), then new BaseNodeModel(data, graphModel) in
\* a graph whose labels get ids of their own
Rebuild(n) ==
  LET data == GetDataOf(n, x[n], y[n], rotate[n], properties[n], text[n])
      built == InitNodeData(ConfigOfData(data), 0)
  IN
  /\ properties[n]["labelConfig"].kind = "lc"
  /\ x' = [x EXCEPT ![n] = built.x]
  /\ y' = [y EXCEPT ![n] = built.y]
  /\ rotate' = [rotate EXCEPT ![n] = built.rotate]
  /\ transform' = [transform EXCEPT ![n] = built.transform]
  /\ text' = [text EXCEPT ![n] = built.text]
  /\ nextId' = UuidsOfFormatText(ConfigOfData(data))
  /\ call' = [CallOf("constructor", n) EXCEPT !.data = data]
  /\ UNCHANGED <<labels, style, zIndex, overlapMode, modelType, anchorsOffset, width, height,
                 properties, moveRules, nodeMoveRules, sourceRules, targetRules,
                 hasSetSourceRules, hasSetTargetRules, firstRules>>

\* setZIndex(zIndex)
SetZIndex(n, z) ==
  /\ zIndex' = [zIndex EXCEPT ![n] = z]
  /\ call' = CallOf("setZIndex", n)
  /\ UNCHANGED <<labels, style, overlapMode, modelType, anchorsOffset, x, y, width, height,
                 rotate, transform, text, properties, moveRules, nodeMoveRules, sourceRules,
                 targetRules, hasSetSourceRules, hasSetTargetRules, firstRules, nextId>>

\* ---------------------------------------------------------------- styles
\* formatData(data): a copy of plain data; style values are plain strings
FormatData(data) == data

\* the state no style operation touches
UnchangedByStyles ==
  UNCHANGED <<labels, zIndex, overlapMode, modelType, anchorsOffset, x, y, width, height, rotate,
              transform, text, properties, moveRules, nodeMoveRules, sourceRules,
              targetRules, hasSetSourceRules, hasSetTargetRules, firstRules, nextId>>

\* { ...this.style, ...styles }: the keys styles holds win
SpreadStyles(old, styles) ==
  [k \in StyleKeys |-> IF styles[k] # Undefined THEN styles[k] ELSE old[k]]

\* setStyle(key, val)
SetStyle(n, key, val) ==
  /\ style' = [style EXCEPT ![n] = [@ EXCEPT ![key] = FormatData(val)]]
  /\ call' = [CallOf("setStyle", n) EXCEPT
                !.styles = [NoStyle EXCEPT ![key] = val], !.styleWas = style[n]]
  /\ UnchangedByStyles

\* setStyles merging nothing: the map becomes the styles given
SetStylesReplacing(n, styles) ==
  /\ style' = [style EXCEPT ![n] = FormatData(styles)]
  /\ call' = [CallOf("setStyles", n) EXCEPT !.styles = styles, !.styleWas = style[n]]
  /\ UnchangedByStyles

\* setStyles(styles)
SetStyles(n, styles) ==
  /\ style' = [style EXCEPT ![n] = SpreadStyles(@, FormatData(styles))]
  /\ call' = [CallOf("setStyles", n) EXCEPT !.styles = styles, !.styleWas = style[n]]
  /\ UnchangedByStyles

\* updateStyles(styles)
UpdateStyles(n, styles) ==
  /\ style' = [style EXCEPT ![n] = SpreadStyles(NoStyle, FormatData(styles))]
  /\ call' = [CallOf("updateStyles", n) EXCEPT !.styles = styles, !.styleWas = style[n]]
  /\ UnchangedByStyles

\* ---------------------------------------------------------- label plugin
\* a label of the overlay model
OverlayLabel(id, relateId, px, py) == [id |-> id, relateId |-> relateId, x |-> px, y |-> py]

\* deltaX / deltaY of the model an event carries: nil, or a number
Nil == [isNil |-> TRUE, v |-> 0]
Num(v) == [isNil |-> FALSE, v |-> v]

\* item.setAttributes({x: item.x + deltaX, y: item.y + deltaY}) over the
\* labels whose index is in targets
ShiftTargets(list, targets, deltaX, deltaY) ==
  [i \in 1..Len(list) |->
     IF i \in targets THEN [list[i] EXCEPT !.x = @ + deltaX, !.y = @ + deltaY]
     ELSE list[i]]

\* this.model.labels.filter((label) => label.relateId === model.relateId)
LabelsOf(list, relateId) == {i \in 1..Len(list) : list[i].relateId = relateId}

\* the LABEL_SHOULD_UPDATE listener for an event without a data list, whose
\* model carries neither nodeRotate, nodeResize, points nor data: the node
\* branch filters the labels by relateId, the edge branch shifts
\* targetLabels as declared, the empty list
LabelsAfterUpdate(list, baseType, relateId, deltaX, deltaY) ==
  IF baseType = "node" /\ relateId # ""
    THEN LET targetLabels == LabelsOf(list, relateId) IN
         IF targetLabels = {} THEN list
         ELSE IF ~deltaX.isNil /\ ~deltaY.isNil
           THEN ShiftTargets(list, targetLabels, deltaX.v, deltaY.v)
         ELSE list
  ELSE IF baseType = "edge" /\ relateId # ""
    THEN IF ~deltaX.isNil /\ ~deltaY.isNil
           THEN ShiftTargets(list, {}, deltaX.v, deltaY.v)
           ELSE list
  ELSE list

\* labels stay inside -MaxCoord..MaxCoord on both axes
InOverlay(list) ==
  \A i \in 1..Len(list) :
    /\ list[i].x \in (0 - MaxCoord)..MaxCoord
    /\ list[i].y \in (0 - MaxCoord)..MaxCoord

\* lf.emit(LABEL_SHOULD_UPDATE, {model}) reaching the listener of the plugin
LabelShouldUpdate(baseType, relateId, deltaX, deltaY) ==
  /\ InOverlay(LabelsAfterUpdate(labels, baseType, relateId, deltaX, deltaY))
  /\ labels' = LabelsAfterUpdate(labels, baseType, relateId, deltaX, deltaY)
  /\ call' = [CallOf("label:shouldUpdate", relateId) EXCEPT
                !.msg = baseType, !.moved = <<deltaX, deltaY>>]
  /\ UNCHANGED <<style, zIndex, overlapMode, modelType, anchorsOffset, x, y, width, height,
                 rotate, transform, text, properties, moveRules, nodeMoveRules, sourceRules,
                 targetRules, hasSetSourceRules, hasSetTargetRules, firstRules, nextId>>

\* --------------------------------------------------- Connection Rule Engine
\* the rules callers register; a rule's message is its name
ConnectRuleIds == {"pass", "failA", "failB", "notSelf"}

\* rule.validate.call(this, source, target, ...)
Validate(rule, source, target) ==
  CASE rule = "pass" -> TRUE
    [] rule = "notSelf" -> source # target
    [] OTHER -> FALSE

\* the for loop without its break: every predicate is called and the message
\* of the last failing rule is kept
ConnectLoopWithoutBreak(rules, i, source, target, invoked) ==
  LET failing == {j \in i..Len(rules) : ~Validate(rules[j], source, target)} IN
  [isAllPass |-> failing = {},
   msg |-> IF failing = {} THEN ""
           ELSE rules[CHOOSE j \in failing : \A k \in failing : k <= j],
   invoked |-> invoked \o SubSeq(rules, i, Len(rules))]

\* the for loop of isAllowConnectedAsSource / isAllowConnectedAsTarget from the
\* i-th rule on; invoked lists the predicates that were called
RECURSIVE ConnectLoop(_, _, _, _, _)
ConnectLoop(rules, i, source, target, invoked) ==
  IF i > Len(rules) THEN [isAllPass |-> TRUE, msg |-> "", invoked |-> invoked]
  ELSE IF ~Validate(rules[i], source, target)
    THEN [isAllPass |-> FALSE, msg |-> rules[i], invoked |-> Append(invoked, rules[i])]
  ELSE ConnectLoop(rules, i + 1, source, target, Append(invoked, rules[i]))

\* getConnectedSourceRules / getConnectedTargetRules: the base class returns
\* the node's own list; an override may push a rule onto that list and return
\* it, or return a new list holding the node's rules and one more
HookKinds == {"base", "push", "fresh"}

HookReturn(own, kind, extra) == IF kind = "base" THEN own ELSE Append(own, extra)

\* the node's own list after the hook ran
HookLeaves(own, kind, extra) == IF kind = "push" THEN Append(own, extra) ELSE own

\* the rules an evaluation runs
RulesToRun(hasSet, own, kind, extra) ==
  IF ~hasSet THEN HookReturn(own, kind, extra) ELSE own

IsAllowConnectedAsSource(n, target, kind, extra) ==
  LET rules == RulesToRun(hasSetSourceRules[n], sourceRules[n], kind, extra)
      r == ConnectLoop(rules, 1, n, target, <<>>)
  IN
  /\ sourceRules' = [sourceRules EXCEPT ![n] =
                       IF hasSetSourceRules[n] THEN @ ELSE HookLeaves(@, kind, extra)]
  /\ hasSetSourceRules' = [hasSetSourceRules EXCEPT ![n] = TRUE]
  /\ firstRules' = [firstRules EXCEPT ![n].source =
                      IF hasSetSourceRules[n] THEN @ ELSE rules]
  /\ call' = [CallOf("isAllowConnectedAsSource", n) EXCEPT !.ret = r.isAllPass,
                !.msg = r.msg, !.rules = rules, !.hookCalled = ~hasSetSourceRules[n],
                !.invoked = r.invoked]
  /\ UNCHANGED <<labels, style, zIndex, overlapMode, modelType, anchorsOffset, x, y, width, height, rotate, transform, text, properties, moveRules,
                 nodeMoveRules, targetRules, hasSetTargetRules, nextId>>

IsAllowConnectedAsTarget(n, source, kind, extra) ==
  LET rules == RulesToRun(hasSetTargetRules[n], targetRules[n], kind, extra)
      r == ConnectLoop(rules, 1, source, n, <<>>)
  IN
  /\ targetRules' = [targetRules EXCEPT ![n] =
                       IF hasSetTargetRules[n] THEN @ ELSE HookLeaves(@, kind, extra)]
  /\ hasSetTargetRules' = [hasSetTargetRules EXCEPT ![n] = TRUE]
  /\ firstRules' = [firstRules EXCEPT ![n].target =
                      IF hasSetTargetRules[n] THEN @ ELSE rules]
  /\ call' = [CallOf("isAllowConnectedAsTarget", n) EXCEPT !.ret = r.isAllPass,
                !.msg = r.msg, !.rules = rules, !.hookCalled = ~hasSetTargetRules[n],
                !.invoked = r.invoked]
  /\ UNCHANGED <<labels, style, zIndex, overlapMode, modelType, anchorsOffset, x, y, width, height, rotate, transform, text, properties, moveRules,
                 nodeMoveRules, sourceRules, hasSetSourceRules, nextId>>

\* ----------------------------------------------------------- Anchor Resolver
\* an entry of anchorsOffset: a legacy pair [dx, dy], or a record {x, y, id?};
\* id = "" stands for no id supplied
OffsetTuple(ox, oy) == [isTuple |-> TRUE, x |-> ox, y |-> oy, id |-> ""]
OffsetRecord(ox, oy, id) == [isTuple |-> FALSE, x |-> ox, y |-> oy, id |-> id]

\* an anchor id: `${id}_${idx}` of the node, or the id the entry supplies
GeneratedId(n, idx) == [node |-> n, idx |-> idx, name |-> ""]
SuppliedId(id) == [node |-> "", idx |-> -1, name |-> id]

\* getDefaultAnchor: none for the base class, four for the circle
GetDefaultAnchor(n) ==
  IF modelType[n] = "circle-node"
    THEN <<[id |-> GeneratedId(n, 0), x |-> x[n], y |-> y[n] - CircleR],
           [id |-> GeneratedId(n, 1), x |-> x[n] + CircleR, y |-> y[n]],
           [id |-> GeneratedId(n, 2), x |-> x[n], y |-> y[n] + CircleR],
           [id |-> GeneratedId(n, 3), x |-> x[n] - CircleR, y |-> y[n]]>>
    ELSE <<>>

\* getAnchorsByOffset returning the offsets themselves, the centre not added
GetAnchorsByOffsetWithoutCentre(n) ==
  LET offsets == anchorsOffset[n] IN
  IF Len(offsets) > 0
    THEN [i \in 1..Len(offsets) |->
            [id |-> IF ~offsets[i].isTuple /\ offsets[i].id # ""
                      THEN SuppliedId(offsets[i].id) ELSE GeneratedId(n, i - 1),
             x |-> offsets[i].x, y |-> offsets[i].y]]
    ELSE GetDefaultAnchor(n)

\* getAnchorsByOffset: new points at centre + offset, or the default anchors
GetAnchorsByOffset(n) ==
  LET offsets == anchorsOffset[n] IN
  IF Len(offsets) > 0
    THEN [i \in 1..Len(offsets) |->
            [id |-> IF ~offsets[i].isTuple /\ offsets[i].id # ""
                      THEN SuppliedId(offsets[i].id) ELSE GeneratedId(n, i - 1),
             x |-> x[n] + offsets[i].x, y |-> y[n] + offsets[i].y]]
    ELSE GetDefaultAnchor(n)

\* new Matrix([px, py, 1]) multiplied by an affine matrix: the first two entries
MatApply(m, px, py) == <<px * m[1] + py * m[3] + m[5], px * m[2] + py * m[4] + m[6]>>

\* the forEach of the anchors getter turning every point about the origin
TurnAnchorsAboutOrigin(anchors, px, py, q) ==
  [i \in 1..Len(anchors) |->
     LET ef == MatApply(MatRotate(q), anchors[i].x, anchors[i].y)
     IN [anchors[i] EXCEPT !.x = ef[1], !.y = ef[2]]]

\* the forEach of the anchors getter: every point is rewritten to
\* translate(-x, -y).rotate(rotate).translate(x, y) of itself
TurnAnchors(anchors, px, py, q) ==
  [i \in 1..Len(anchors) |->
     LET ef == MatApply(TranslateRotateTranslate(px, py, q), anchors[i].x, anchors[i].y)
     IN [anchors[i] EXCEPT !.x = ef[1], !.y = ef[2]]]

\* the anchors getter: getAnchorsByOffset, turned with the current x, y, rotate
Anchors(n) == TurnAnchors(GetAnchorsByOffset(n), x[n], y[n], rotate[n])

\* a read of node.anchors: the points go to the caller, the node keeps its state
ReadAnchors(n) ==
  /\ call' = [CallOf("anchors", n) EXCEPT !.anchors = Anchors(n)]
  /\ UNCHANGED <<labels, style, zIndex, overlapMode, modelType, anchorsOffset, x, y, width, height, rotate, transform, text,
                 properties, moveRules, nodeMoveRules, sourceRules, targetRules,
                 hasSetSourceRules, hasSetTargetRules, firstRules, nextId>>

\* anchorsOffset assigned by the caller or by a subclass
SetAnchorsOffset(n, offsets) ==
  /\ anchorsOffset' = [anchorsOffset EXCEPT ![n] = offsets]
  /\ call' = CallOf("anchorsOffset", n)
  /\ UNCHANGED <<labels, style, zIndex, overlapMode, modelType, x, y, width, height, rotate, transform, text,
                 properties, moveRules, nodeMoveRules, sourceRules, targetRules,
                 hasSetSourceRules, hasSetTargetRules, firstRules, nextId>>

\* sourceRules and targetRules are public fields: callers push onto them,
\* splice them, or assign a new list
SetSourceRules(n, list) ==
  /\ sourceRules' = [sourceRules EXCEPT ![n] = list]
  /\ call' = CallOf("sourceRules", n)
  /\ UNCHANGED <<labels, style, zIndex, overlapMode, modelType, anchorsOffset, x, y, width, height, rotate, transform, text,
                 properties, moveRules, nodeMoveRules, targetRules,
                 hasSetSourceRules, hasSetTargetRules, firstRules, nextId>>

SetTargetRules(n, list) ==
  /\ targetRules' = [targetRules EXCEPT ![n] = list]
  /\ call' = CallOf("targetRules", n)
  /\ UNCHANGED <<labels, style, zIndex, overlapMode, modelType, anchorsOffset, x, y, width, height, rotate, transform, text,
                 properties, moveRules, nodeMoveRules, sourceRules,
                 hasSetSourceRules, hasSetTargetRules, firstRules, nextId>>

\* ===================================================== label lifecycle: Spec
\* one node, built from any of the text inputs; labels, moves and properties
MultiConfigs == {c \in InitLabelConfigs : c.multiple}

LabelRules == {"denyX"}

UpdateValues == {UpdateString("b"), UpdateContent("c")}

\* resize inputs: a width below minWidth and the default one, even deltas
ResizeWidths == {20}

LabelTexts ==
  {TextAbsent, TextString("a"),
   TextArray(<<ItemString("a"), ItemObject("b", "a", TRUE, 5, 5)>>)}

Init ==
  \E d \in {c \in ValidNodeConfigs : ~c.rotate.given /\ c.x = 0 /\ c.text \in LabelTexts} :
    InitGraph([n \in {"n1"} |-> d])

DoMove == \E n \in DOMAIN x, dx \in {0, 1}, dy \in {0, 1}, ig \in BOOLEAN : Move(n, dx, dy, ig)
DoMoveTo == \E n \in DOMAIN x, tx \in 0..MaxCoord, ty \in 0..MaxCoord, ig \in BOOLEAN : MoveTo(n, tx, ty, ig)
DoAddText == \E n \in DOMAIN x : AddText(n, x[n] + 3, y[n] + 3)
DoUpdateText == \E n \in DOMAIN x, v \in UpdateValues, id \in 1..MaxIds : UpdateText(n, v, id)
DoDeleteTextByIndex == \E n \in DOMAIN x, i \in 0..1 : DeleteText(n, TRUE, i, FALSE, 0)
DoDeleteTextById == \E n \in DOMAIN x, id \in 1..MaxIds : DeleteText(n, FALSE, 0, TRUE, id)
DoSetLabelConfig ==
  \E n \in DOMAIN x, c \in MultiConfigs : SetProperty(n, "labelConfig", PropLabelConfig(c))
DoSetLabelConfigs ==
  \E n \in DOMAIN x, c \in MultiConfigs :
    SetProperties(n, [EmptyProps EXCEPT !["labelConfig"] = PropLabelConfig(c)])
DoDeleteSize == \E n \in DOMAIN x : DeleteProperty(n, "color")
DoResize == \E n \in DOMAIN x, w \in ResizeWidths, ddx \in {0, 2} : Resize(n, w, DefaultHeight, ddx, 0)
DoAddLabelRule == \E n \in DOMAIN x, fn \in LabelRules : AddNodeMoveRules(n, fn)

Next ==
  \/ DoMove
  \/ DoMoveTo
  \/ DoAddText
  \/ DoUpdateText
  \/ DoDeleteTextByIndex
  \/ DoDeleteTextById
  \/ DoSetLabelConfig
  \/ DoSetLabelConfigs
  \/ DoDeleteSize
  \/ DoResize
  \/ DoAddLabelRule

Spec == Init /\ [][Next]_vars

\* ================================================ label edits: SpecLabels
\* one node as in Spec; label edits and moves only, the property map is left
\* as construction made it
NextLabels ==
  \/ DoMove
  \/ DoMoveTo
  \/ DoAddText
  \/ DoUpdateText
  \/ DoDeleteTextByIndex
  \/ DoDeleteTextById

SpecLabels == Init /\ [][NextLabels]_vars

\* ================================================ rotation: SpecTransform
\* one node built with a rotation; rotate assignments, moves and resizes
InitTransform ==
  \E d \in {c \in ValidNodeConfigs :
              c.rotate.given /\ c.text = TextAbsent /\ c.labelConfig = SingleConfig} :
    InitGraph([n \in {"n1"} |-> d])

DoRotate == \E n \in DOMAIN x, q \in Quarters : SetRotate(n, q)
DoMoveAny == \E n \in DOMAIN x, dx \in Deltas, dy \in Deltas : Move(n, dx, dy, FALSE)
DoGetMoveDistance ==
  \E n \in DOMAIN x, dx \in Deltas, dy \in Deltas : GetMoveDistance(n, dx, dy, FALSE)
DoMoveToAny == \E n \in DOMAIN x, tx \in 0..MaxCoord, ty \in 0..MaxCoord : MoveTo(n, tx, ty, FALSE)
DoResizeAny ==
  \E n \in DOMAIN x, w \in ResizeWidths, ddx \in {-2, 0, 2} : Resize(n, w, DefaultHeight, ddx, 0)

NextTransform ==
  \/ DoRotate
  \/ DoMoveAny
  \/ DoGetMoveDistance
  \/ DoMoveToAny
  \/ DoResizeAny

SpecTransform == InitTransform /\ [][NextTransform]_vars

\* ============================================== properties: SpecProperties
\* one plain node; primitive-valued and object-valued properties
PropValues == {PropPrim("red"), PropPrim("blue"), PropObj("o1"), PropObj("o2")}

\* the objects passed to setProperties: color and meta, each given or not
PropArgs ==
  {[EmptyProps EXCEPT !["color"] = c, !["meta"] = m, !["width"] = w] :
     c \in {PropAbsent, PropPrim("red"), PropPrim("blue")},
     m \in {PropAbsent, PropObj("o1"), PropObj("o2")},
     w \in {PropAbsent, PropNum(DefaultWidth)}} \ {EmptyProps}

InitProperties == InitGraph([n \in {"n1"} |-> PlainConfig(0)])

DoSetProperty ==
  \E n \in DOMAIN x, k \in {"color", "meta"}, v \in PropValues :
    /\ (k = "color") = (v.kind = "prim")
    /\ SetProperty(n, k, v)
DoSetProperties == \E n \in DOMAIN x, p \in PropArgs : SetProperties(n, p)
DoDeleteProperty == \E n \in DOMAIN x, k \in {"color", "meta", "width"} : DeleteProperty(n, k)

NextProperties ==
  \/ DoSetProperty
  \/ DoSetProperties
  \/ DoDeleteProperty

SpecProperties == InitProperties /\ [][NextProperties]_vars

\* ================================================== move rules: SpecGraph
\* two plain nodes of one graph; node-local and graph-wide move rules
MaxRules == 2

NodeRules == {"denyX"}
GraphRules == {"allow", "veto", "denyXY", "denyY"}

InitGraphOfTwo == InitGraph([n \in NodeIds |-> PlainConfig(0)])

\* n1 is moved along both axes, n2 along x only
DoGraphMove ==
  \E n \in DOMAIN x, dx \in Deltas, dy \in Deltas :
    (n = "n2" => dy = 0) /\ Move(n, dx, dy, FALSE)
DoGraphMoveTo ==
  \E n \in DOMAIN x, tx \in 0..MaxCoord, ty \in 0..MaxCoord :
    (n = "n2" => ty = y[n]) /\ MoveTo(n, tx, ty, FALSE)
DoAddNodeRule == \E n \in DOMAIN x, fn \in NodeRules : AddNodeMoveRules(n, fn)
DoAddGraphRule ==
  \E fn \in GraphRules : Len(nodeMoveRules) < MaxRules /\ GraphAddNodeMoveRules(fn)

NextGraph ==
  \/ DoGraphMove
  \/ DoGraphMoveTo
  \/ DoAddNodeRule
  \/ DoAddGraphRule

SpecGraph == InitGraphOfTwo /\ [][NextGraph]_vars

\* ============================================ connection rules: SpecConnect
\* two plain nodes; each chain evaluated with any kind of hook
HookExtras == {"failA", "notSelf"}

DoAsSource ==
  \E n \in DOMAIN x, m \in DOMAIN x, k \in HookKinds, e \in HookExtras :
    IsAllowConnectedAsSource(n, m, k, e)
DoAsTarget ==
  \E n \in DOMAIN x, m \in DOMAIN x, k \in HookKinds, e \in HookExtras :
    IsAllowConnectedAsTarget(n, m, k, e)

NextConnect ==
  \/ DoAsSource
  \/ DoAsTarget

SpecConnect == InitGraphOfTwo /\ [][NextConnect]_vars

\* ================================================ rule chains: SpecChain
\* two plain nodes; the rule lists of n1 are edited by the caller and
\* evaluated with the base-class hooks
MaxChain == 2

SourcePool == {"pass", "failA", "notSelf"}
TargetPool == {"failB"}

DoPushSourceRule ==
  \E rule \in SourcePool :
    /\ Len(sourceRules["n1"]) < MaxChain
    /\ SetSourceRules("n1", Append(sourceRules["n1"], rule))
DoSpliceSourceRule ==
  \E i \in 0..(Len(sourceRules["n1"]) - 1) :
    SetSourceRules("n1", Splice(sourceRules["n1"], i))
DoReplaceSourceRules == \E rule \in {"failB"} : SetSourceRules("n1", <<rule>>)
DoPushTargetRule ==
  \E rule \in TargetPool :
    /\ Len(targetRules["n1"]) < MaxChain
    /\ SetTargetRules("n1", Append(targetRules["n1"], rule))
DoEvalSource == \E m \in DOMAIN x : IsAllowConnectedAsSource("n1", m, "base", "pass")
DoEvalTarget == \E m \in DOMAIN x : IsAllowConnectedAsTarget("n1", m, "base", "pass")

NextChain ==
  \/ DoPushSourceRule
  \/ DoSpliceSourceRule
  \/ DoReplaceSourceRules
  \/ DoPushTargetRule
  \/ DoEvalSource
  \/ DoEvalTarget

SpecChain == InitGraphOfTwo /\ [][NextChain]_vars

\* ==================================================== shapes: SpecShapes
\* one node, of the base class or a circle; anchors, rotation, moves, resizes
OffsetLists ==
  {<<>>,
   <<OffsetTuple(50, 0)>>,
   <<OffsetRecord(0, 40, "top"), OffsetRecord(-50, 0, "")>>}

InitShapes ==
  \E kind \in ModelTypes :
    InitGraphOfKinds([n \in {"n1"} |-> PlainConfig(0)], [n \in {"n1"} |-> kind])

DoSetAnchorsOffset == \E n \in DOMAIN x, o \in OffsetLists : SetAnchorsOffset(n, o)
DoReadAnchors == \E n \in DOMAIN x : ReadAnchors(n)
DoShapeRotate == \E n \in DOMAIN x, q \in Quarters : SetRotate(n, q)
DoShapeMove == \E n \in DOMAIN x, dx \in Deltas, dy \in Deltas : Move(n, dx, dy, FALSE)
DoShapeMoveTo ==
  \E n \in DOMAIN x, tx \in 0..MaxCoord, ty \in 0..MaxCoord : MoveTo(n, tx, ty, FALSE)
DoShapeResize ==
  \E n \in DOMAIN x, w \in ResizeWidths, ddx \in {-2, 0, 2} : Resize(n, w, DefaultHeight, ddx, 0)
DoShapeAddRule == \E n \in DOMAIN x, fn \in NodeRules : AddNodeMoveRules(n, fn)

NextShapes ==
  \/ DoSetAnchorsOffset
  \/ DoReadAnchors
  \/ DoShapeRotate
  \/ DoShapeMove
  \/ DoShapeMoveTo
  \/ DoShapeResize
  \/ DoShapeAddRule

SpecShapes == InitShapes /\ [][NextShapes]_vars

\* ============================================== construction: SpecConstruct
\* an empty graph to which one node is added; the NodeConfig is any of
\* NodeConfigs, the empty list under a single config included
InitConstruct ==
  /\ labels = <<>>
  /\ style = <<>>
  /\ zIndex = <<>>
  /\ overlapMode = "default"
  /\ modelType = <<>>
  /\ anchorsOffset = <<>>
  /\ x = <<>>
  /\ y = <<>>
  /\ width = <<>>
  /\ height = <<>>
  /\ rotate = <<>>
  /\ transform = <<>>
  /\ text = <<>>
  /\ properties = <<>>
  /\ moveRules = <<>>
  /\ nodeMoveRules = <<>>
  /\ sourceRules = <<>>
  /\ targetRules = <<>>
  /\ hasSetSourceRules = <<>>
  /\ hasSetTargetRules = <<>>
  /\ firstRules = <<>>
  /\ nextId = 0
  /\ call = CallOf("", "")

\* new BaseNodeModel(data, graphModel) for a node id the graph does not hold:
\* the field initialisers, then initNodeData(data); the call log keeps the
\* console.warn of formatText
Construct(n, data) ==
  LET built == InitNodeData(data, nextId) IN
  /\ n \notin DOMAIN x
  /\ style' = (n :> NoStyle) @@ style
  /\ zIndex' = (n :> InitZIndex(overlapMode, Cardinality(DOMAIN x) + 1)) @@ zIndex
  /\ modelType' = (n :> "node") @@ modelType
  /\ anchorsOffset' = (n :> <<>>) @@ anchorsOffset
  /\ x' = (n :> built.x) @@ x
  /\ y' = (n :> built.y) @@ y
  /\ width' = (n :> DefaultWidth) @@ width
  /\ height' = (n :> DefaultHeight) @@ height
  /\ rotate' = (n :> built.rotate) @@ rotate
  /\ transform' = (n :> built.transform) @@ transform
  /\ text' = (n :> built.text) @@ text
  /\ properties' = (n :> built.properties) @@ properties
  /\ moveRules' = (n :> <<>>) @@ moveRules
  /\ sourceRules' = (n :> <<>>) @@ sourceRules
  /\ targetRules' = (n :> <<>>) @@ targetRules
  /\ hasSetSourceRules' = (n :> FALSE) @@ hasSetSourceRules
  /\ hasSetTargetRules' = (n :> FALSE) @@ hasSetTargetRules
  /\ firstRules' = (n :> [source |-> <<>>, target |-> <<>>]) @@ firstRules
  /\ nextId' = nextId + UuidsOfFormatText(data)
  /\ call' = [CallOf("constructor", n) EXCEPT
                !.msg = IF WarnsOfFormatText(data) THEN "warn" ELSE ""]
  /\ UNCHANGED <<nodeMoveRules, overlapMode, labels>>

DoConstruct == \E d \in NodeConfigs : Construct("n1", d)

\* one string handed over in the three forms a caller may use under a single
\* config: the string, the record {value: s}, the list [s]
TextForms == {"string", "object", "list"}
LabelStrings == {"", "a", "b"}
TextInForm(s, form) ==
  CASE form = "string" -> TextString(s)
    [] form = "object" -> TextObject(ItemObject(s, Undefined, FALSE, 0, 0))
    [] OTHER -> TextArray(<<ItemString(s)>>)

DoConstructInForm ==
  \E s \in LabelStrings, form \in TextForms, px \in 0..MaxCoord :
    Construct("n1", [PlainConfig(px) EXCEPT !.text = TextInForm(s, form)])

NextConstruct ==
  \/ DoConstruct
  \/ DoConstructInForm

SpecConstruct == InitConstruct /\ [][NextConstruct]_vars

\* ==================================================== styles: SpecStyles
\* one plain node; style operations between moves and property updates
StyleValues == {"red", "blue"}
StyleArgs == [StyleKeys -> StyleValues \cup {Undefined}] \ {NoStyle}

InitStyles == InitGraph([n \in {"n1"} |-> PlainConfig(0)])

DoSetStyle == \E n \in DOMAIN x, k \in StyleKeys, v \in StyleValues : SetStyle(n, k, v)
DoSetStyles == \E n \in DOMAIN x, s \in StyleArgs : SetStyles(n, s)
DoUpdateStyles == \E n \in DOMAIN x, s \in StyleArgs : UpdateStyles(n, s)
DoStyleMove == \E n \in DOMAIN x, dx \in Deltas : Move(n, dx, 0, FALSE)
DoStyleSetProperty ==
  \E n \in DOMAIN x, v \in {PropPrim("red"), PropPrim("blue")} : SetProperty(n, "color", v)

NextStyles ==
  \/ DoSetStyle
  \/ DoSetStyles
  \/ DoUpdateStyles
  \/ DoStyleMove
  \/ DoStyleSetProperty

SpecStyles == InitStyles /\ [][NextStyles]_vars

\* ================================================ snapshots: SpecSnapshot
\* one node of a graph under either overlap mode; label edits, moves along
\* x, rotation, z-index and labelConfig updates, and reads of the snapshot
InitSnapshot ==
  \E mode \in OverlapModes,
     d \in {c \in ValidNodeConfigs : ~c.rotate.given /\ c.x = 0 /\ c.text \in LabelTexts} :
    InitGraphIn([n \in {"n1"} |-> d], [n \in {"n1"} |-> "node"], mode) /\ labels = <<>>

DoGetData == \E n \in DOMAIN x : GetData(n)
DoSetZIndex == \E n \in DOMAIN x, z \in {DefaultZIndex, DefaultZIndex + 1} : SetZIndex(n, z)
DoSnapRotate == \E n \in DOMAIN x, q \in {0, 1} : SetRotate(n, q)
DoSnapMove == \E n \in DOMAIN x, dx \in Deltas : Move(n, dx, 0, FALSE)

NextSnapshot ==
  \/ DoGetData
  \/ DoSetZIndex
  \/ DoSnapRotate
  \/ DoSnapMove
  \/ DoAddText
  \/ DoUpdateText
  \/ DoDeleteTextById
  \/ DoSetLabelConfig

SpecSnapshot == InitSnapshot /\ [][NextSnapshot]_vars

\* ================================================ label plugin: SpecOverlay
\* two nodes and one edge with labels in the overlay of the plugin; the
\* events carry a model of a node or of an edge
EdgeIds == {"e1"}
EventDeltas == {Nil} \cup {Num(d) : d \in Deltas}

InitOverlay ==
  /\ InitGraphIn([n \in NodeIds |-> PlainConfig(0)], [n \in NodeIds |-> "node"], "default")
  /\ labels = <<OverlayLabel(1, "n1", 0, 0), OverlayLabel(2, "n2", 0, 0),
                OverlayLabel(3, "n1", 1, 0), OverlayLabel(4, "e1", 0, 0)>>

DoNodeShouldUpdate ==
  \E n \in NodeIds \cup {""}, dx \in EventDeltas, dy \in EventDeltas :
    LabelShouldUpdate("node", n, dx, dy)
DoEdgeShouldUpdate ==
  \E e \in EdgeIds \cup {""}, dx \in EventDeltas, dy \in EventDeltas :
    LabelShouldUpdate("edge", e, dx, dy)

NextOverlay ==
  \/ DoNodeShouldUpdate
  \/ DoEdgeShouldUpdate

SpecOverlay == InitOverlay /\ [][NextOverlay]_vars

\* ================================================= rotation: SpecRotation
\* one node of 100 by 80, or a circle, at (100, 100); anchor offsets are
\* assigned, the rotation is set to quarter turns of either sign, anchors
\* are read
Turns == -3..3

InitRotation ==
  \E kind \in ModelTypes :
    InitGraphOfKinds([n \in {"n1"} |-> [PlainConfig(100) EXCEPT !.y = 100]],
                     [n \in {"n1"} |-> kind])

DoTurn == \E n \in DOMAIN x, q \in Turns : SetRotate(n, q)

NextRotation ==
  \/ DoSetAnchorsOffset
  \/ DoReadAnchors
  \/ DoTurn

SpecRotation == InitRotation /\ [][NextRotation]_vars

\* ============================================== round trip: SpecRoundTrip
\* one node as in Spec; label edits and moves, and the node constructed anew
\* from its snapshot
DoPlaceText ==
  \E n \in DOMAIN x, id \in 1..MaxIds : UpdateText(n, UpdatePos(x[n] + 1, y[n] + 1), id)
DoRebuild == \E n \in DOMAIN x : Rebuild(n)

NextRoundTrip ==
  \/ DoMove
  \/ DoAddText
  \/ DoUpdateText
  \/ DoPlaceText
  \/ DoDeleteTextById
  \/ DoRebuild

SpecRoundTrip == Init /\ [][NextRoundTrip]_vars

\* ======================================================================
\* Properties
\* ======================================================================
Range(f) == {f[i] : i \in DOMAIN f}

\* the aggregation of move rules, stated without the loop: a veto is a rule
\* answering falsy or a pair with both axes false; otherwise each axis is the
\* conjunction of that axis over the pairs
RuleVetoes(rule, dx, dy) ==
  LET r == RuleResult(rule, dx, dy) IN ~r.b \/ (r.kind = "pair" /\ ~r.x /\ ~r.y)

Vetoed(rules, dx, dy) == \E i \in 1..Len(rules) : RuleVetoes(rules[i], dx, dy)

AxisAllowed(rules, dx, dy, axis) ==
  \A i \in 1..Len(rules) :
    LET r == RuleResult(rules[i], dx, dy) IN
    r.kind = "pair" => (IF axis = "x" THEN r.x ELSE r.y)

Aggregate(rules, dx, dy) ==
  IF Vetoed(rules, dx, dy) THEN RuleBool(FALSE)
  ELSE RulePair(AxisAllowed(rules, dx, dy, "x"), AxisAllowed(rules, dx, dy, "y"))

\* every label of the text t is the same label of the text s shifted by (dx, dy)
LabelsShifted(s, t, dx, dy) ==
  /\ t.isArray = s.isArray
  /\ Len(t.items) = Len(s.items)
  /\ \A i \in 1..Len(s.items) : t.items[i] = ShiftLabel(s.items[i], dx, dy)

\* the list without its entry at the 0-based position i
WithoutEntry(items, i) == SubSeq(items, 1, i) \o SubSeq(items, i + 2, Len(items))

\* C1: in every reachable state the text field is a list exactly when
\* properties.labelConfig.multiple is true, and one label record otherwise.
C1_TextShapeFollowsConfig ==
  \A n \in DOMAIN text :
    /\ text[n].isArray <=> IsMultiple(properties[n])
    /\ ~text[n].isArray => Len(text[n].items) = 1

\* C2: the transform descriptor always equals translate(-x,-y), rotate(rotate),
\* translate(x,y) of the node's current x, y and rotate.
C2_TransformFollowsPosition ==
  \A n \in DOMAIN transform : transform[n] = TransformSet(x[n], y[n], rotate[n])

\* C3: per chain, the hook is consulted on the first evaluation only, every
\* evaluation runs the list the hook returned then, and evaluating one chain
\* leaves the other chain's first evaluation pending.
C3_ChainIsCached ==
  [][/\ call'.name = "isAllowConnectedAsSource" =>
          /\ call'.hookCalled <=> ~hasSetSourceRules[call'.node]
          /\ call'.rules = firstRules'[call'.node].source
          /\ hasSetTargetRules' = hasSetTargetRules
     /\ call'.name = "isAllowConnectedAsTarget" =>
          /\ call'.hookCalled <=> ~hasSetTargetRules[call'.node]
          /\ call'.rules = firstRules'[call'.node].target
          /\ hasSetSourceRules' = hasSetSourceRules]_vars

\* C4: move(dx, dy) without ignoreRules applies each axis exactly when the
\* aggregated rules allow that axis, shifts every label by the applied part of
\* the delta, and returns true exactly when an axis was applied.
C4_MoveAxesDecoupled ==
  [][\A n \in DOMAIN x, dx \in Deltas, dy \in Deltas :
       Move(n, dx, dy, FALSE) =>
         LET a == Aggregate(ConcatMoveRules(n), dx, dy)
             ax == IF a.x THEN dx ELSE 0
             ay == IF a.y THEN dy ELSE 0
         IN /\ x'[n] = x[n] + ax
            /\ y'[n] = y[n] + ay
            /\ LabelsShifted(text[n], text'[n], ax, ay)
            /\ call'.ret = (a.x \/ a.y)]_vars

\* C5: isAllowMoveNode over the node-local rules followed by the graph-wide
\* ones answers false when a rule answers falsy or a pair with both axes
\* false, and otherwise the per-axis conjunction of the pairs.
C5_AggregationOfMoveRules ==
  [][\A n \in DOMAIN x, dx \in Deltas, dy \in Deltas :
       Move(n, dx, dy, FALSE) =>
         call'.allow = Aggregate(moveRules[n] \o nodeMoveRules, dx, dy)]_vars

\* C5 witness: a move was validated against one rule denying x and one
\* denying y, and the answer was the pair (false, false), not a veto.
C5_Witness ==
  /\ call.name = "move"
  /\ call.allow = RulePair(FALSE, FALSE)
  /\ "denyX" \in Range(moveRules[call.node])
  /\ "denyY" \in Range(nodeMoveRules)

\* C6: moveTo(x, y) is all or nothing: vetoed, it returns false and changes
\* nothing; otherwise it returns true, the node is at (x, y) and every label
\* is shifted by the whole delta.
C6_MoveToAllOrNothing ==
  [][\A n \in DOMAIN x, tx \in 0..MaxCoord, ty \in 0..MaxCoord :
       MoveTo(n, tx, ty, FALSE) =>
         IF Vetoed(ConcatMoveRules(n), tx - x[n], ty - y[n])
           THEN ~call'.ret /\ x'[n] = x[n] /\ y'[n] = y[n] /\ text'[n] = text[n]
           ELSE /\ call'.ret
                /\ x'[n] = tx /\ y'[n] = ty
                /\ LabelsShifted(text[n], text'[n], tx - x[n], ty - y[n])]_vars

\* C7: in multiple mode deleteText with a valid index i, 0 included, removes
\* exactly the entry at i.
C7_DeleteByIndex ==
  [][\A n \in DOMAIN x, i \in 0..1 :
       (/\ DeleteText(n, TRUE, i, FALSE, 0)
        /\ IsMultiple(properties[n]) /\ text[n].isArray /\ i < Len(text[n].items))
       => text'[n].items = WithoutEntry(text[n].items, i)]_vars

\* C8: setProperties(p) called twice in a row: the second call lists no
\* changed key and leaves the property map as it was.
C8_SetPropertiesIdempotent ==
  [][\A n \in DOMAIN x, p \in PropArgs :
       (/\ SetProperties(n, p)
        /\ call.name = "setProperties" /\ call.node = n /\ call.arg = p)
       => call'.keys = <<>> /\ properties' = properties]_vars

\* the supplied keys whose value differs from the one held, or that are new
RECURSIVE ChangedKeysFrom(_, _, _)
ChangedKeysFrom(pre, p, i) ==
  IF i > Len(PropKeys) THEN <<>>
  ELSE IF Has(p, PropKeys[i]) /\ pre[PropKeys[i]] # p[PropKeys[i]]
    THEN <<PropKeys[i]>> \o ChangedKeysFrom(pre, p, i + 1)
  ELSE ChangedKeysFrom(pre, p, i + 1)

\* C9: the keys of the properties-changed event of setProperty and
\* setProperties are exactly the supplied keys whose value changed or is new.
C9_ChangedKeysAreExact ==
  [][call'.name \in {"setProperty", "setProperties"} =>
       call'.keys = ChangedKeysFrom(properties[call'.node], call'.arg, 1)]_vars

\* C10 as stated: a rule added through one node's addNodeMoveRules is among
\* the rules every other node's move validation consults.
C10_NodeRuleReachesOtherNodes ==
  [][\A n \in DOMAIN x, fn \in NodeRules :
       AddNodeMoveRules(n, fn) =>
         \A m \in DOMAIN x : fn \in Range(moveRules'[m] \o nodeMoveRules')]_vars

\* C10 amended: addNodeMoveRules of a node changes that node's own list only,
\* so the validation of every other node answers as before; every node's
\* validation reads the graph's list, so a rule the graph adds to it is
\* consulted by all of them from the next call on.
C10_NodeRulesAreLocal ==
  [][/\ \A n \in DOMAIN x, fn \in NodeRules :
          AddNodeMoveRules(n, fn) =>
            /\ nodeMoveRules' = nodeMoveRules
            /\ \A m \in DOMAIN x \ {n}, dx \in Deltas, dy \in Deltas :
                 MoveRuleLoop(moveRules'[m] \o nodeMoveRules', 1, dx, dy, TRUE, TRUE)
                   = IsAllowMoveNode(m, dx, dy)
     /\ \A n \in DOMAIN x, dx \in Deltas, dy \in Deltas :
          Move(n, dx, dy, FALSE) =>
            \A i \in 1..Len(nodeMoveRules) :
              RuleVetoes(nodeMoveRules[i], dx, dy) => ~call'.ret]_vars

\* C10 witness: n1 registered denyX through its own API, no graph-wide rule
\* holds n2 back, and n2 has just moved with both axes allowed.
C10_Witness ==
  /\ DOMAIN x = NodeIds
  /\ "denyX" \in Range(moveRules["n1"])
  /\ "denyX" \notin Range(moveRules["n2"])
  /\ call.name = "move" /\ call.node = "n2"
  /\ call.allow = RulePair(TRUE, TRUE)
  /\ x["n2"] # 0

\* C11: resize({width, height, deltaX, deltaY}) leaves the node at
\* (x + deltaX/2, y + deltaY/2) with every label shifted by the half deltas,
\* width and height equal to the supplied values, whatever they are, and
\* returns the snapshot of the resulting state.
C11_ResizeMovesThenSetsSize ==
  [][\A n \in DOMAIN x, w \in ResizeWidths, ddx \in {-2, 0, 2} :
       Resize(n, w, DefaultHeight, ddx, 0) =>
         /\ x'[n] = x[n] + ddx \div 2
         /\ y'[n] = y[n]
         /\ LabelsShifted(text[n], text'[n], ddx \div 2, 0)
         /\ width'[n] = w
         /\ height'[n] = DefaultHeight
         /\ call'.data = GetDataOf(n, x'[n], y'[n], rotate'[n], properties'[n], text'[n])]_vars

\* the label count of node n respects labelConfig.max
CountWithinMax(n) ==
  (IsMultiple(properties[n]) /\ properties[n]["labelConfig"].lc.hasMax) =>
    /\ text[n].isArray
    /\ Len(text[n].items) <= properties[n]["labelConfig"].lc.max

\* C12: in multiple mode with labelConfig.max set the label count never
\* exceeds max under addText, updateText, deleteText, move and moveTo; addText
\* changes nothing once the count has reached max, and otherwise appends one
\* empty, focused record at the given position.
C12_LabelCountWithinMax ==
  [][/\ \A n \in DOMAIN x : CountWithinMax(n) /\ CountWithinMax(n)'
     /\ \A n \in DOMAIN x :
          (/\ AddText(n, x[n] + 3, y[n] + 3)
           /\ IsMultiple(properties[n]) /\ properties[n]["labelConfig"].lc.hasMax)
          => IF Len(text[n].items) >= properties[n]["labelConfig"].lc.max
               THEN text'[n] = text[n]
               ELSE LET k == Len(text[n].items)
                        added == text'[n].items[k + 1]
                    IN /\ text'[n].isArray
                       /\ Len(text'[n].items) = k + 1
                       /\ SubSeq(text'[n].items, 1, k) = text[n].items
                       /\ added.value = "" /\ added.content = "" /\ added.isFocus
                       /\ added.x = x[n] + 3 /\ added.y = y[n] + 3]_vars

\* C12 witness: max is 2, the node was built without labels, two labels were
\* added and a further addText was refused.
C12_Witness ==
  /\ call.name = "addText" /\ call.msg = "full"
  /\ \E n \in DOMAIN x :
       /\ call.node = n
       /\ properties[n]["labelConfig"].lc.max = 2
       /\ Len(text[n].items) = 2
       /\ \A i \in 1..2 : text[n].items[i].value = "" /\ text[n].items[i].isFocus

\* the positions of the rules of a chain that answer false for (source, target)
FailingAt(rules, source, target) ==
  {i \in 1..Len(rules) : ~Validate(rules[i], source, target)}

\* the outcome the claim prescribes for a chain: stop at the first failing rule
ShortCircuit(rules, source, target) ==
  LET failing == FailingAt(rules, source, target) IN
  IF failing = {}
    THEN [isAllPass |-> TRUE, msg |-> "", invoked |-> rules]
    ELSE LET first == CHOOSE i \in failing : \A j \in failing : i <= j IN
         [isAllPass |-> FALSE, msg |-> rules[first], invoked |-> SubSeq(rules, 1, first)]

\* what an evaluation logged: result, message and the predicates it called
Logged(c) == [isAllPass |-> c.ret, msg |-> c.msg, invoked |-> c.invoked]

\* C13: an evaluation calls the predicates of the chain it runs in list order
\* and stops at the first one answering false, returning not-passed with that
\* rule's message; with no failing rule, also for the empty chain, it returns
\* passed with the empty message.
C13_ChainShortCircuits ==
  [][\A n \in DOMAIN x, m \in DOMAIN x :
       /\ IsAllowConnectedAsSource(n, m, "base", "pass") =>
            Logged(call') = ShortCircuit(call'.rules, n, m)
       /\ IsAllowConnectedAsTarget(n, m, "base", "pass") =>
            Logged(call') = ShortCircuit(call'.rules, m, n)]_vars

\* C13 witness: a chain of two rules whose first rule failed: only the first
\* predicate was called and its message was returned.
C13_Witness ==
  /\ call.name = "isAllowConnectedAsSource"
  /\ Len(call.rules) = 2
  /\ ~call.ret
  /\ call.msg = call.rules[1]
  /\ call.invoked = <<call.rules[1]>>

\* what isAllowConnectedAsSource / AsTarget of node n would return now
ResultAsSource(n, m, hasSet, own) ==
  LET r == ConnectLoop(RulesToRun(hasSet, own, "base", "pass"), 1, n, m, <<>>) IN
  [isAllPass |-> r.isAllPass, msg |-> r.msg]

ResultAsTarget(n, m, hasSet, own) ==
  LET r == ConnectLoop(RulesToRun(hasSet, own, "base", "pass"), 1, m, n, <<>>) IN
  [isAllPass |-> r.isAllPass, msg |-> r.msg]

\* C14: once a chain of a node has been evaluated, adding to, removing from or
\* replacing the node's rule list changes the result of no later evaluation.
C14_MutationAfterFirstCheckHasNoEffect ==
  [][/\ (call'.name = "sourceRules" /\ hasSetSourceRules[call'.node]) =>
          \A m \in DOMAIN x :
            ResultAsSource(call'.node, m, TRUE, sourceRules'[call'.node])
              = ResultAsSource(call'.node, m, TRUE, sourceRules[call'.node])
     /\ (call'.name = "targetRules" /\ hasSetTargetRules[call'.node]) =>
          \A m \in DOMAIN x :
            ResultAsTarget(call'.node, m, TRUE, targetRules'[call'.node])
              = ResultAsTarget(call'.node, m, TRUE, targetRules[call'.node])]_vars

\* label l after updateText(v) as the claim prescribes: a string sets value
\* and content, a partial record overwrites the fields it holds
UpdatedAsClaimed(l, l2, v) ==
  CASE v.kind = "string" -> l2.value = v.s /\ l2.content = v.s
    [] v.kind = "value" -> l2 = [l EXCEPT !.value = v.s]
    [] v.kind = "content" -> l2 = [l EXCEPT !.content = v.s]
    [] OTHER -> l2 = [l EXCEPT !.x = v.x, !.y = v.y]

\* C15: updateText with the id of an existing label: a string s leaves that
\* label with value = s and content = s, in single and in multiple mode; a
\* partial record is merged into it; every other label is unchanged.
C15_UpdateSetsValueAndContent ==
  [][\A n \in DOMAIN x, v \in UpdateValues, id \in 1..MaxIds :
       (/\ UpdateText(n, v, id)
        /\ \E i \in 1..Len(text[n].items) : text[n].items[i].id = id)
       => /\ text'[n].isArray = text[n].isArray
          /\ Len(text'[n].items) = Len(text[n].items)
          /\ \A i \in 1..Len(text[n].items) :
               IF text[n].items[i].id = id
                 THEN UpdatedAsClaimed(text[n].items[i], text'[n].items[i], v)
                 ELSE text'[n].items[i] = text[n].items[i]]_vars

\* C16: in any state reached through label, move and property operations, a
\* move(dx, dy) that every move rule allows on both axes leaves the node at
\* (x + dx, y + dy) and every label shifted by (dx, dy), whether the text
\* field is one record or a list.
C16_AllowedMoveShiftsEveryLabel ==
  [][\A n \in DOMAIN x, dx \in Deltas, dy \in Deltas :
       (/\ Move(n, dx, dy, FALSE)
        /\ Aggregate(ConcatMoveRules(n), dx, dy) = RulePair(TRUE, TRUE))
       => /\ x'[n] = x[n] + dx
          /\ y'[n] = y[n] + dy
          /\ LabelsShifted(text[n], text'[n], dx, dy)]_vars

\* no label of the text t has the id
Unmatched(t, id) == \A i \in 1..Len(t.items) : t.items[i].id # id

\* C19: updateText and deleteText with an id matching no label raise no error
\* and leave position and properties as they were; the text is left as it was
\* too, except that deleteText in single mode clears value and content.
C19_UnmatchedIdIsNoOp ==
  [][/\ \A n \in DOMAIN x, v \in UpdateValues, id \in 1..MaxIds :
          (UpdateText(n, v, id) /\ Unmatched(text[n], id)) =>
            /\ ~call'.threw
            /\ text'[n] = text[n]
            /\ x'[n] = x[n] /\ y'[n] = y[n] /\ properties'[n] = properties[n]
     /\ \A n \in DOMAIN x, id \in 1..MaxIds :
          (DeleteText(n, FALSE, 0, TRUE, id) /\ Unmatched(text[n], id)) =>
            /\ ~call'.threw
            /\ IsMultiple(properties[n]) => text'[n] = text[n]
            /\ x'[n] = x[n] /\ y'[n] = y[n] /\ properties'[n] = properties[n]]_vars

\* C17: construction normalises every accepted text input: under a single
\* config the text is exactly one label record, under a multiple config it is
\* a list; a list input under a multiple config keeps its first
\* min(length, max) entries in input order (all of them without max), and the
\* warning is produced exactly when entries are trimmed
KeptOf(data) ==
  IF data.labelConfig.hasMax /\ data.labelConfig.max < Len(data.text.list)
    THEN data.labelConfig.max ELSE Len(data.text.list)

C17_ConstructionNormalisesText ==
  [][\A d \in NodeConfigs :
       Construct("n1", d) =>
         LET t == text'["n1"] IN
         /\ ~d.labelConfig.multiple => (~t.isArray /\ Len(t.items) = 1)
         /\ d.labelConfig.multiple => t.isArray
         /\ (d.labelConfig.multiple /\ d.text.kind = "array") =>
              /\ Len(t.items) = KeptOf(d)
              /\ \A i \in 1..KeptOf(d) : t.items[i].value = d.text.list[i].value
              /\ (call'.msg = "warn") <=> (KeptOf(d) < Len(d.text.list))]_vars

\* C18: anchors are derived from the current state on every read.  With an
\* offset list the i-th anchor is the node centre plus the i-th offset turned
\* about the centre by the current rotation, under the supplied id or the
\* generated id of the node and index; without one a circle yields four
\* points at distance CircleR from the centre and the base class none.  After
\* a move or moveTo the anchors are those of before, shifted by the
\* displacement applied to the node, and a read of the anchors changes
\* neither the offset list nor any other field of the node.
TurnedOffset(ox, oy, q) ==
  CASE q % 4 = 0 -> <<ox, oy>>
    [] q % 4 = 1 -> <<0 - oy, ox>>
    [] q % 4 = 2 -> <<0 - ox, 0 - oy>>
    [] OTHER -> <<oy, 0 - ox>>

ExpectedId(n, offset, idx) ==
  IF ~offset.isTuple /\ offset.id # "" THEN SuppliedId(offset.id) ELSE GeneratedId(n, idx)

CardinalOffsets == <<OffsetTuple(0, 0 - CircleR), OffsetTuple(CircleR, 0),
                     OffsetTuple(0, CircleR), OffsetTuple(0 - CircleR, 0)>>

OffsetsInForce(n) ==
  IF Len(anchorsOffset[n]) > 0 THEN anchorsOffset[n]
  ELSE IF modelType[n] = "circle-node" THEN CardinalOffsets
  ELSE <<>>

ExpectedAnchors(n) ==
  LET offsets == OffsetsInForce(n) IN
  [i \in 1..Len(offsets) |->
     LET t == TurnedOffset(offsets[i].x, offsets[i].y, rotate[n]) IN
     [id |-> ExpectedId(n, offsets[i], i - 1), x |-> x[n] + t[1], y |-> y[n] + t[2]]]

ShiftedAnchors(anchors, dx, dy) ==
  [i \in 1..Len(anchors) |-> [anchors[i] EXCEPT !.x = @ + dx, !.y = @ + dy]]

NodeStateUnchanged ==
  UNCHANGED <<labels, style, zIndex, overlapMode, modelType, anchorsOffset, x, y, width, height, rotate, transform, text,
              properties, moveRules, nodeMoveRules, sourceRules, targetRules,
              hasSetSourceRules, hasSetTargetRules, firstRules, nextId>>

C18_AnchorsFollowCurrentState ==
  [][\A n \in DOMAIN x :
       /\ call'.name = "anchors" /\ call'.node = n =>
            /\ call'.anchors = ExpectedAnchors(n)
            /\ NodeStateUnchanged
       /\ call'.name \in {"move", "moveTo"} /\ call'.node = n =>
            TurnAnchors(GetAnchorsByOffset(n)', x'[n], y'[n], rotate'[n])
              = ShiftedAnchors(Anchors(n), x'[n] - x[n], y'[n] - y[n])]_vars

\* anchors read on a node that has been moved and turned, with a supplied id
C18_Witness ==
  /\ call.name = "anchors"
  /\ x["n1"] = 1
  /\ rotate["n1"] = 1
  /\ Len(call.anchors) = 2
  /\ call.anchors[1] = [id |-> SuppliedId("top"), x |-> 1 - 40, y |-> 0]

\* C20: under a single labelConfig addText creates no second record: the text
\* stays one record with the id, value, content and position it had, marked
\* focused, whatever position the call is given
C20_SingleModeAddTextOnlyFocuses ==
  [][\A n \in DOMAIN x :
       (/\ call'.name = "addText" /\ call'.node = n
        /\ ~IsMultiple(properties[n])
        /\ ~text[n].isArray /\ Len(text[n].items) = 1) =>
         /\ ~call'.threw
         /\ ~text'[n].isArray
         /\ Len(text'[n].items) = 1
         /\ text'[n].items[1] = [text[n].items[1] EXCEPT !.isFocus = TRUE]]_vars

\* addText was called on the single record 'a', at a position other than the
\* record's
C20_Witness ==
  /\ call.name = "addText"
  /\ call.msg = "focus"
  /\ ~text["n1"].isArray
  /\ text["n1"].items[1].value = "a"
  /\ text["n1"].items[1].isFocus
  /\ text["n1"].items[1].x # x["n1"] + 3

\* C21: under a single config a string s passed as text in any of the forms
\* s, {value: s} and [s] is constructed into exactly one label record whose
\* value and content are both s
C21_SingleModeCanonicalLabel ==
  [][\A s \in LabelStrings, form \in TextForms, px \in 0..MaxCoord :
       Construct("n1", [PlainConfig(px) EXCEPT !.text = TextInForm(s, form)]) =>
         /\ ~text'["n1"].isArray
         /\ Len(text'["n1"].items) = 1
         /\ text'["n1"].items[1].value = s
         /\ text'["n1"].items[1].content = s]_vars

\* a node constructed under a single config from the string b
C21_Witness ==
  /\ call.name = "constructor"
  /\ "n1" \in DOMAIN text
  /\ ~IsMultiple(properties["n1"])
  /\ text["n1"] = TextRecord(LabelOf(1, "b", "b", x["n1"] - LabelOffset, 0 - LabelOffset, FALSE))

\* C22: under a single config deleteText never removes the record: the text
\* stays one record with its id and position, its value and content empty.
\* Under a multiple config deleteText with the id of a label removes exactly
\* that label and keeps the others in their order.
C22_DeleteClearsOrRemovesOne ==
  [][\A n \in DOMAIN x :
       /\ (call'.name = "deleteText" /\ call'.node = n /\ ~IsMultiple(properties[n])) =>
            /\ ~text'[n].isArray
            /\ Len(text'[n].items) = 1
            /\ text'[n].items[1] =
                 [text[n].items[1] EXCEPT !.value = "", !.content = ""]
       /\ \A id \in 1..MaxIds :
            (/\ DeleteText(n, FALSE, 0, TRUE, id)
             /\ IsMultiple(properties[n])
             /\ ~Unmatched(text[n], id)) =>
              /\ text'[n].isArray
              /\ text'[n].items = WithoutEntry(text[n].items, FindIndex(text[n].items, id))]_vars

\* C23: setStyle and setStyles set the keys they are given and leave every
\* other style key with its previous value; updateStyles leaves the style map
\* with exactly the keys it is given, so a key held before and not given is
\* gone; none of the three changes properties, position or labels
GivenKeys(styles) == {k \in StyleKeys : styles[k] # Undefined}
HeldKeys(n) == {k \in StyleKeys : style[n][k] # Undefined}

FrameOfStyles(n) ==
  /\ properties'[n] = properties[n]
  /\ x'[n] = x[n] /\ y'[n] = y[n]
  /\ text'[n] = text[n]

C23_StyleOperationsAreDistinct ==
  [][\A n \in DOMAIN x :
       /\ \A k \in StyleKeys, v \in StyleValues :
            SetStyle(n, k, v) =>
              /\ style'[n][k] = v
              /\ \A j \in StyleKeys \ {k} : style'[n][j] = style[n][j]
              /\ FrameOfStyles(n)
       /\ \A s \in StyleArgs :
            /\ SetStyles(n, s) =>
                 /\ \A k \in GivenKeys(s) : style'[n][k] = s[k]
                 /\ \A j \in StyleKeys \ GivenKeys(s) : style'[n][j] = style[n][j]
                 /\ FrameOfStyles(n)
            /\ UpdateStyles(n, s) =>
                 /\ (HeldKeys(n))' = GivenKeys(s)
                 /\ \A k \in GivenKeys(s) : style'[n][k] = s[k]
                 /\ FrameOfStyles(n)]_vars

\* updateStyles dropped a key that was held and that it was not given
C23_Witness ==
  /\ call.name = "updateStyles"
  /\ call.styleWas["fill"] = "red" /\ call.styles["fill"] = Undefined
  /\ style["n1"] = [fill |-> Undefined, stroke |-> "blue"]
  /\ x["n1"] = 1

\* C24: the snapshot getData returns carries id, type, x, y and properties of
\* the current state, rotate exactly when the rotation is not zero, zIndex
\* exactly when the graph is under the z-increase policy, and its text, when
\* present, is one {x, y, value, content} record under a single config and
\* the list of such records, one per label in order, under a multiple config
C24_SnapshotOfCurrentState ==
  [][\A n \in DOMAIN x :
       (call'.name = "getData" /\ call'.node = n) =>
         LET data == call'.data IN
         /\ data.defined
         /\ data.id = n /\ data.type = modelType[n]
         /\ data.x = x[n] /\ data.y = y[n]
         /\ data.properties = properties[n]
         /\ data.hasRotate <=> rotate[n] # 0
         /\ data.hasRotate => data.rotate = rotate[n]
         /\ data.hasZIndex <=> overlapMode = "increase"
         /\ data.hasZIndex => data.zIndex = zIndex[n]
         /\ (data.text.kind # "absent" /\ ~IsMultiple(properties[n])) =>
              /\ data.text.kind = "record"
              /\ data.text.items = <<SnapshotLabel(text[n].items[1])>>
         /\ (data.text.kind # "absent" /\ IsMultiple(properties[n])) =>
              /\ data.text.kind = "list"
              /\ Len(data.text.items) = Len(text[n].items)
              /\ \A i \in 1..Len(text[n].items) :
                   data.text.items[i] = SnapshotLabel(text[n].items[i])]_vars

\* C28: a label-should-update event without a data list, whose model has a
\* relateId and deltaX and deltaY that are not nil, shifts every label with
\* that relateId by (deltaX, deltaY) and changes no other label, for the
\* model of a node and of an edge alike
C28_EventShiftsRelatedLabels ==
  [][\A baseType \in {"node", "edge"}, id \in NodeIds \cup EdgeIds,
        dx \in Deltas, dy \in Deltas :
       LabelShouldUpdate(baseType, id, Num(dx), Num(dy)) =>
         /\ Len(labels') = Len(labels)
         /\ \A i \in 1..Len(labels) :
              labels'[i] = IF labels[i].relateId = id
                             THEN [labels[i] EXCEPT !.x = @ + dx, !.y = @ + dy]
                             ELSE labels[i]]_vars

\* C25: rotation acts on anchors as a rotation about the centre of the node.
\* On a node at (100, 100) turned by a right angle an anchor at (150, 100)
\* reads as (100, 150); under every rotation each anchor keeps its distance
\* from the centre; and turning the anchors read by the negative of the
\* rotation gives back the anchors before rotation.
SquaredDistance(anchor, n) ==
  (anchor.x - x[n]) * (anchor.x - x[n]) + (anchor.y - y[n]) * (anchor.y - y[n])

C25_RotationAboutCentre ==
  \A n \in DOMAIN x :
    LET plain == GetAnchorsByOffset(n)
        turned == Anchors(n)
    IN
    /\ Len(turned) = Len(plain)
    /\ (call.name = "anchors" /\ call.node = n /\ rotate[n] = 1
          /\ x[n] = 100 /\ y[n] = 100) =>
         \A i \in 1..Len(plain) :
           (plain[i].x = 150 /\ plain[i].y = 100) =>
             (call.anchors[i].x = 100 /\ call.anchors[i].y = 150)
    /\ \A i \in 1..Len(plain) :
         SquaredDistance(turned[i], n) = SquaredDistance(plain[i], n)
    /\ TurnAnchors(turned, x[n], y[n], 0 - rotate[n]) = plain

\* the anchor at (150, 100) of a 100 by 80 node at (100, 100), read after a
\* right-angle rotation
C25_Witness ==
  /\ call.name = "anchors"
  /\ modelType["n1"] = "node"
  /\ x["n1"] = 100 /\ y["n1"] = 100
  /\ width["n1"] = 100 /\ height["n1"] = 80
  /\ rotate["n1"] = 1
  /\ anchorsOffset["n1"] = <<OffsetTuple(50, 0)>>
  /\ call.anchors = <<[id |-> GeneratedId("n1", 0), x |-> 100, y |-> 150]>>

\* the steps of the last call named step
StepsNamed(step) == {i \in 1..Len(call.trace) : call.trace[i].step = step}

\* C26: setProperty and setProperties replace the property map by a new map,
\* the old entries merged with the new values, then run setAttributes exactly
\* once, which sees the new map, then emit exactly one properties-changed
\* event carrying the previous map, unmodified, and the new map
C26_ReplaceThenHookThenEmit ==
  [][\A n \in DOMAIN x :
       (call'.name \in {"setProperty", "setProperties"} /\ call'.node = n) =>
         LET t == call'.trace IN
         /\ properties'[n] = MergeProps(properties[n], call'.arg)
         /\ Len(t) = 3
         /\ t[1].step = "properties" /\ t[1].props = properties'[n]
         /\ t[2].step = "setAttributes" /\ t[2].props = properties'[n]
         /\ t[3].step = "emit"
         /\ t[3].pre = properties[n] /\ t[3].props = properties'[n]
         /\ call'.emitted]_vars

\* setProperties replaced a map holding color red by one holding color blue
C26_Witness ==
  /\ call.name = "setProperties"
  /\ Len(call.trace) = 3
  /\ call.trace[3].pre["color"] = PropPrim("red")
  /\ call.trace[2].props["color"] = PropPrim("blue")
  /\ properties["n1"]["color"] = PropPrim("blue")
  /\ properties["n1"]["meta"] # PropAbsent

\* C27: deleteProperty(key) leaves the property map without the key and with
\* every other key as it was, runs setAttributes exactly once and emits no
\* properties-changed event; deleting a key the map does not hold leaves the
\* map as it was
C27_DeletePropertyRemovesOneKey ==
  [][\A n \in DOMAIN x, key \in PropKeySet :
       DeleteProperty(n, key) =>
         /\ ~Has(properties'[n], key)
         /\ \A k \in PropKeySet \ {key} : properties'[n][k] = properties[n][k]
         /\ Cardinality((StepsNamed("setAttributes"))') = 1
         /\ (StepsNamed("emit"))' = {}
         /\ ~call'.emitted
         /\ ~Has(properties[n], key) => properties' = properties]_vars

\* deleteProperty removed color from a map that also holds meta
C27_Witness ==
  /\ call.name = "deleteProperty"
  /\ Len(call.trace) = 2
  /\ Has(call.trace[1].pre, "color")
  /\ ~Has(properties["n1"], "color")
  /\ Has(properties["n1"], "meta")

\* C29: a node constructed from the snapshot of a node, under the same
\* labelConfig, has the snapshot it was constructed from: every label keeps
\* its x, y, value and content, under a single and under a multiple config
C29_SnapshotRoundTrip ==
  [][\A n \in DOMAIN x :
       Rebuild(n) =>
         GetDataOf(n, x'[n], y'[n], rotate'[n], properties'[n], text'[n]) = call'.data]_vars

====
